---- MODULE Spec2Model ----
(***************************************************************************)
(* A model of the Dataiku MCP tool layer (src/dataiku_mcp).                *)
(*                                                                         *)
(* Every tool is a Python function that calls the vendor SDK in a fixed    *)
(* sequence inside try/except blocks.  A tool call is modelled as one      *)
(* action: the tool's operator threads an execution context through the   *)
(* SDK calls the code makes, in the order the code makes them.  The k-th   *)
(* SDK call of a tool call raises iff k is in the failure pattern F that   *)
(* the action draws, so every pattern of SDK failures (up to MaxFailures   *)
(* failing calls) is explored.                                             *)
(***************************************************************************)
EXTENDS Integers, Sequences, FiniteSets, TLC

VARIABLES
    _CLIENT_INSTANCE,   \* client.py:13, the shared handle; None or an instance id
    made,               \* number of DSSClient instances constructed so far
    env,                \* process environment: DSS_HOST and DSS_API_KEY
    pc,                 \* "idle": no request in progress; "done": a call has returned
    last,               \* the call that has just returned: tool, arguments, outcome
    serial,             \* TRUE: the host transport runs one request at a time
    tpc,                \* per thread: position inside get_client
    tnew,               \* per thread: the client its _create_client() returned
    tret                \* per thread: the instance get_client returned to it

vars == <<_CLIENT_INSTANCE, made, env, pc, last, serial, tpc, tnew, tret>>

(***************************************************************************)
(* Bounds                                                                  *)
(***************************************************************************)
MaxClients == 2      \* client instances constructed in one behaviour
MaxThreads == 2      \* threads calling get_client()
MaxFailures == 2     \* SDK calls that raise within one tool call
MaxCalls == 12       \* positions at which a failure can be injected
MaxTriggers == 3     \* triggers of the source scenario
MaxRemove == 2       \* length of a remove_triggers list
MaxObjects == 2      \* objects a project lists for a batch update
MaxEnvs == 2         \* code environments the instance lists
MaxRecipes == 2      \* recipes in a project flow
MaxInputs == 2       \* declared inputs of a recipe
MaxOutputs == 1      \* declared outputs of a recipe

(***************************************************************************)
(* Python values                                                           *)
(***************************************************************************)
\* An optional argument: <<>> is None, <<v>> is the value v.
None == <<>>
Some(v) == <<v>>
\* Python truthiness of an optional string: None and "" are falsy.
Truthy(o) == o # None /\ o[1] # ""

\* No instance: the value None of _CLIENT_INSTANCE.
NoClient == 0

\* The function has not returned yet / the function fell off its end.
Running == [status |-> "<running>"]
PyNone == [status |-> "<None>"]

Err(msg) == [status |-> "error", message |-> msg]

(***************************************************************************)
(* Execution context of one call.                                          *)
(*   F       positions (1 = first SDK call) whose call raises              *)
(*   emsg    str(e) of an exception raised by the SDK                      *)
(*   calls   the SDK calls made so far, <<method, target>>                 *)
(*   raised  the positions whose call raised                               *)
(*   exc     an exception is propagating; etype, etext its type and str()  *)
(*   ret     the value returned, Running while the body executes           *)
(*   inst    _CLIENT_INSTANCE; made: instances constructed; env            *)
(*   mem     the objects the call leaves in memory, for inspection         *)
(***************************************************************************)
Start(F, emsg, inst, n, e) ==
    [F |-> F, emsg |-> emsg, calls |-> <<>>, raised |-> <<>>,
     exc |-> FALSE, etype |-> "", etext |-> "",
     ret |-> Running, inst |-> inst, made |-> n, env |-> e, inst0 |-> inst,
     mem |-> <<>>]

Live(c) == ~c.exc /\ c.ret = Running

\* One SDK call: logged, and raising when its position is in F.
Do(c, call) ==
    IF ~Live(c) THEN c
    ELSE LET k == Len(c.calls) + 1 IN
         IF k \in c.F
         THEN [c EXCEPT !.calls = Append(@, call), !.raised = Append(@, k),
                        !.exc = TRUE, !.etype = "Exception", !.etext = c.emsg]
         ELSE [c EXCEPT !.calls = Append(@, call)]

\* raise <etype>(<text>) in the tool's own code.
Raise(c, etype, text) ==
    IF ~Live(c) THEN c
    ELSE [c EXCEPT !.exc = TRUE, !.etype = etype, !.etext = text]

\* return <r>
Return(c, r) == IF Live(c) THEN [c EXCEPT !.ret = r] ELSE c

\* The end of a function body without a return statement.
FallOff(c) == IF Live(c) THEN [c EXCEPT !.ret = PyNone] ELSE c

\* A handler whose message is str(e) alone, without the tool's prefix.
ExceptReturn_bare(c, prefix) ==
    IF c.exc
    THEN [c EXCEPT !.exc = FALSE, !.ret = Err(c.etext)]
    ELSE c

\* except Exception as e: return {"status": "error", "message": prefix + str(e)}
ExceptReturn(c, prefix) ==
    IF c.exc
    THEN [c EXCEPT !.exc = FALSE, !.ret = Err(prefix \o c.etext)]
    ELSE c

\* except Exception: <continue with the next statement>
ExceptContinue(c) == IF c.exc THEN [c EXCEPT !.exc = FALSE] ELSE c

(***************************************************************************)
(* client.py                                                               *)
(***************************************************************************)
\* os.environ.get(name): None when unset.
Missing(v) == ~Truthy(v)

\* A _create_client that does not require the API key.
_create_client_unvalidated(c) ==
    IF Missing(c.env.DSS_HOST)
    THEN Raise(c, "ValueError", "DSS_HOST environment variable is required")
    ELSE [Do(Do(c, <<"DSSClient", c.env.DSS_HOST[1]>>), <<"get_instance_info", "client">>)
             EXCEPT !.made = @ + 1]

_create_client(c) ==
    IF Missing(c.env.DSS_HOST)
    THEN Raise(c, "ValueError", "DSS_HOST environment variable is required")
    ELSE IF Missing(c.env.DSS_API_KEY)
    THEN Raise(c, "ValueError", "DSS_API_KEY environment variable is required")
    ELSE LET a == Do(c, <<"DSSClient", c.env.DSS_HOST[1]>>)
             b == Do(a, <<"get_instance_info", "client">>)
         IN  IF b.exc
             THEN [b EXCEPT !.etype = "ConnectionError",
                            !.etext = "Failed to connect to DSS at "
                                      \o c.env.DSS_HOST[1] \o ": " \o @]
             ELSE [b EXCEPT !.made = @ + 1]

\* A get_client that constructs a client on every call.
get_client_always_creates(c) ==
    IF ~Live(c) THEN c
    ELSE LET d == _create_client(c) IN
         IF d.exc THEN d ELSE [d EXCEPT !.inst = d.made]

get_client(c) ==
    IF ~Live(c) THEN c
    ELSE IF c.inst = NoClient
    THEN LET d == _create_client(c) IN
         IF d.exc THEN d ELSE [d EXCEPT !.inst = d.made]
    ELSE c

reset_client(c) == [c EXCEPT !.inst = NoClient]

get_project(c, project_key) ==
    Do(get_client(c), <<"get_project", project_key>>)

(***************************************************************************)
(* str.lower() on the strings the model passes as type names.              *)
(***************************************************************************)
Lower(s) ==
    CASE s = "Managed" -> "managed"
      [] s = "FileSystem" -> "filesystem"
      [] s = "SQL" -> "sql"
      [] s = "S3" -> "s3"
      [] s = "Uploaded" -> "uploaded"
      [] s = "DATASET" -> "dataset"
      [] s = "RECIPE" -> "recipe"
      [] s = "SCENARIO" -> "scenario"
      [] s = "Recipes" -> "recipes"
      [] s = "SCENARIOS" -> "scenarios"
      [] OTHER -> s

\* dict.get(key, default)
GetOr(d, k, default) == IF k \in DOMAIN d THEN d[k] ELSE default

(***************************************************************************)
(* recipes.py: run_recipe                                                  *)
(***************************************************************************)
valid_modes == {"RECURSIVE_BUILD", "NON_RECURSIVE_FORCED_BUILD", "RECURSIVE_FORCED_BUILD"}

run_recipe_body(c, project_key, recipe_name, build_mode) ==
    LET c1 == get_project(c, project_key)
        c2 == Do(c1, <<"get_recipe", recipe_name>>)
        c3 == IF Truthy(build_mode) /\ build_mode[1] \notin valid_modes
              THEN Return(c2, Err("Invalid build_mode. Must be one of: [...]"))
              ELSE c2
        c4 == Do(c3, <<"recipe.run", recipe_name>>)
        c5 == Do(c4, <<"wait_for_completion", "job">>)
        c6 == Do(c5, <<"get_outcome", "job">>)
        c7 == Do(c6, <<"get_start_time", "job">>)
        c8 == Do(c7, <<"get_end_time", "job">>)
    IN  Return(c8, [status |-> "ok", recipe_name |-> recipe_name,
                    message |-> "Recipe '" \o recipe_name \o "' executed successfully"])

\* run_recipe without its try/except.
run_recipe_unguarded(c, project_key, recipe_name, build_mode) ==
    run_recipe_body(c, project_key, recipe_name, build_mode)

run_recipe(c, project_key, recipe_name, build_mode) ==
    ExceptReturn(run_recipe_body(c, project_key, recipe_name, build_mode),
                 "Failed to run recipe '" \o recipe_name \o "': ")

(***************************************************************************)
(* datasets.py: build_dataset                                              *)
(***************************************************************************)
build_dataset_body(c, project_key, dataset_name, mode, partition) ==
    LET c1 == get_project(c, project_key)
        c2 == Do(c1, <<"get_dataset", dataset_name>>)
        c3 == IF Truthy(mode) /\ mode[1] \notin valid_modes
              THEN Return(c2, Err("Invalid build mode. Must be one of: [...]"))
              ELSE c2
        c4 == Do(c3, <<"dataset.build", dataset_name>>)
        c5 == Do(c4, <<"wait_for_completion", "job">>)
        c6 == Do(c5, <<"get_outcome", "job">>)
        c7 == Do(c6, <<"get_start_time", "job">>)
        c8 == Do(c7, <<"get_end_time", "job">>)
    IN  Return(c8, [status |-> "ok", dataset_name |-> dataset_name,
                    build_mode |-> mode, partition |-> partition,
                    message |-> "Dataset '" \o dataset_name \o "' built successfully"])

build_dataset(c, project_key, dataset_name, mode, partition) ==
    ExceptReturn(build_dataset_body(c, project_key, dataset_name, mode, partition),
                 "Failed to build dataset '" \o dataset_name \o "': ")

(***************************************************************************)
(* scenarios.py: create_scenario, add_scenario_trigger                     *)
(***************************************************************************)
valid_types == {"step_based", "custom_python"}

create_scenario_try(c, project_key, scenario_name, scenario_type) ==
    LET c1 == get_project(c, project_key)
        c2 == Do(c1, <<"create_scenario", scenario_name>>)
        c3 == Return(c2, [status |-> "ok", scenario_name |-> scenario_name,
                          scenario_type |-> scenario_type,
                          message |-> "Scenario '" \o scenario_name
                                      \o "' created successfully"])
    IN  ExceptReturn(c3, "Failed to create scenario '" \o scenario_name \o "': ")

\* A validation of the type placed after the project has been fetched.
create_scenario_late(c, project_key, scenario_name, scenario_type) ==
    IF scenario_type \notin valid_types
    THEN ExceptReturn(Return(get_project(c, project_key),
                             Err("Invalid scenario type '" \o scenario_type
                                 \o "'. Must be one of: [...]")),
                      "Failed to create scenario '" \o scenario_name \o "': ")
    ELSE create_scenario_try(c, project_key, scenario_name, scenario_type)

\* lines 36-49: the validation, before the try
create_scenario(c, project_key, scenario_name, scenario_type) ==
    IF scenario_type \notin valid_types
    THEN Return(c, Err("Invalid scenario type '" \o scenario_type
                       \o "'. Must be one of: [...]"))
    ELSE create_scenario_try(c, project_key, scenario_name, scenario_type)

valid_trigger_types == {"periodic", "hourly", "daily", "monthly", "dataset"}

\* The settings.add_*_trigger method the branch for trigger_type calls.
add_trigger_method(trigger_type) ==
    CASE trigger_type = "periodic" -> "add_periodic_trigger"
      [] trigger_type = "hourly" -> "add_hourly_trigger"
      [] trigger_type = "daily" -> "add_daily_trigger"
      [] trigger_type = "monthly" -> "add_monthly_trigger"
      [] trigger_type = "dataset" -> "add_dataset_trigger"

add_scenario_trigger_try(c, project_key, scenario_id, trigger_type, params) ==
    LET c1 == get_project(c, project_key)
        c2 == Do(c1, <<"get_scenario", scenario_id>>)
        c3 == Do(c2, <<"get_settings", scenario_id>>)
        trigger_added == trigger_type \in valid_trigger_types
        c4 == IF trigger_added
              THEN Do(c3, <<add_trigger_method(trigger_type), scenario_id>>)
              ELSE c3
        c5 == IF trigger_added
              THEN Return(Do(c4, <<"save", scenario_id>>),
                          [status |-> "ok", scenario_id |-> scenario_id,
                           trigger_type |-> trigger_type,
                           message |-> "Trigger '" \o trigger_type
                                       \o "' added to scenario '" \o scenario_id
                                       \o "' successfully"])
              ELSE c4
    IN  ExceptReturn(FallOff(c5),
                     "Failed to add trigger to scenario '" \o scenario_id \o "': ")

add_scenario_trigger(c, project_key, scenario_id, trigger_type, params) ==
    IF trigger_type = "time"
    THEN Return(c, Err("Use specific time trigger types: periodic, hourly, daily, or monthly"))
    ELSE IF trigger_type \notin valid_trigger_types
    THEN Return(c, Err("Unsupported trigger type '" \o trigger_type \o "'. Supported types: "
                       \o "periodic, hourly, daily, monthly, dataset"))
    ELSE IF trigger_type = "dataset" /\ "dataset_name" \notin DOMAIN params
    THEN Return(c, Err("dataset_name is required for dataset triggers"))
    ELSE add_scenario_trigger_try(c, project_key, scenario_id, trigger_type, params)

(***************************************************************************)
(* project_exploration.py: get_project_flow                                *)
(*   datasets  the names project.list_datasets() returns, in order         *)
(*   recipes   what project.list_recipes() returns, in order; each item    *)
(*             carries the definition get_definition() would return:       *)
(*             inputs and outputs, sequences of refs                       *)
(***************************************************************************)
RECURSIVE dataset_nodes(_, _)
\* for dataset in datasets: flow_nodes.append({...})
dataset_nodes(datasets, i) ==
    IF i > Len(datasets) THEN <<>>
    ELSE <<[id |-> datasets[i], type |-> "dataset"]>> \o dataset_nodes(datasets, i + 1)

RECURSIVE input_edges(_, _, _)
\* for input_def in recipe_def.get("inputs", []): flow_edges.append(...)
input_edges(name, inputs, i) ==
    IF i > Len(inputs) THEN <<>>
    ELSE <<[from |-> inputs[i], to |-> name, type |-> "input"]>>
         \o input_edges(name, inputs, i + 1)

RECURSIVE output_edges(_, _, _)
\* for output_def in recipe_def.get("outputs", []): flow_edges.append(...)
output_edges(name, outputs, i) ==
    IF i > Len(outputs) THEN <<>>
    ELSE <<[from |-> name, to |-> outputs[i], type |-> "output"]>>
         \o output_edges(name, outputs, i + 1)

RECURSIVE recipe_loop(_, _, _)
\* for recipe in recipes: the node, then the edges inside try/except-continue.
\* st = [c, nodes, edges]
recipe_loop(st, recipes, i) ==
    IF i > Len(recipes) \/ ~Live(st.c) THEN st
    ELSE LET r == recipes[i]
             nodes == Append(st.nodes, [id |-> r.name, type |-> "recipe"])
             c1 == Do(st.c, <<"get_recipe", r.name>>)
             c2 == Do(c1, <<"get_definition", r.name>>)
             edges == IF c2.exc THEN st.edges
                      ELSE st.edges \o input_edges(r.name, r.inputs, 1)
                                    \o output_edges(r.name, r.outputs, 1)
         IN  recipe_loop([c |-> ExceptContinue(c2), nodes |-> nodes, edges |-> edges],
                         recipes, i + 1)

\* dependencies: a dict, modelled by its keys in insertion order and its entries.
EmptyDeps == [keys |-> <<>>, at |-> <<>>]
HasKey(deps, k) == \E j \in 1..Len(deps.keys) : deps.keys[j] = k
KeyIndex(deps, k) == CHOOSE j \in 1..Len(deps.keys) : deps.keys[j] = k
Entry(deps, k) == deps.at[KeyIndex(deps, k)]

\* if k not in dependencies: dependencies[k] = {"depends_on": [], "used_by": []}
ensure_key(deps, k) ==
    IF HasKey(deps, k) THEN deps
    ELSE [keys |-> Append(deps.keys, k),
          at |-> Append(deps.at, [depends_on |-> <<>>, used_by |-> <<>>])]

\* dependencies[k]["depends_on"].append(v), after ensuring the key
add_depends_on(deps, k, v) ==
    LET d == ensure_key(deps, k) IN
    [d EXCEPT !.at[KeyIndex(d, k)].depends_on = Append(@, v)]

\* A used_by list that holds each consumer once.
add_used_by_once(deps, k, v) ==
    LET d == ensure_key(deps, k) IN
    IF \E j \in 1..Len(Entry(d, k).used_by) : Entry(d, k).used_by[j] = v
    THEN d
    ELSE [d EXCEPT !.at[KeyIndex(d, k)].used_by = Append(@, v)]

\* dependencies[k]["used_by"].append(v), after ensuring the key
add_used_by(deps, k, v) ==
    LET d == ensure_key(deps, k) IN
    [d EXCEPT !.at[KeyIndex(d, k)].used_by = Append(@, v)]

RECURSIVE calculate_dependencies(_, _, _)
\* for edge in flow_edges: the input branch and the output branch
calculate_dependencies(deps, edges, i) ==
    IF i > Len(edges) THEN deps
    ELSE LET e == edges[i]
             d == IF e.type = "input"
                  THEN add_used_by(add_depends_on(deps, e.to, e.from), e.from, e.to)
                  ELSE IF e.type = "output"
                  THEN add_used_by(add_depends_on(deps, e.to, e.from), e.from, e.to)
                  ELSE deps
         IN  calculate_dependencies(d, edges, i + 1)

RECURSIVE find_roots(_, _)
\* for node_id, deps in dependencies.items(): if not deps["depends_on"]: ...
find_roots(deps, i) ==
    IF i > Len(deps.keys) THEN <<>>
    ELSE (IF deps.at[i].depends_on = <<>> THEN <<deps.keys[i]>> ELSE <<>>)
         \o find_roots(deps, i + 1)

RECURSIVE find_leaves(_, _)
\* for node_id, deps in dependencies.items(): if not deps["used_by"]: ...
find_leaves(deps, i) ==
    IF i > Len(deps.keys) THEN <<>>
    ELSE (IF deps.at[i].used_by = <<>> THEN <<deps.keys[i]>> ELSE <<>>)
         \o find_leaves(deps, i + 1)

\* lines 153-176: the result dict
flow_result(nodes, edges, dependencies, root_nodes, leaf_nodes) ==
    [status |-> "ok", nodes |-> nodes, edges |-> edges,
     dependencies |-> dependencies,
     root_nodes |-> root_nodes, leaf_nodes |-> leaf_nodes,
     flow_stats |-> [total_nodes |-> Len(nodes),
                     total_edges |-> Len(edges),
                     root_nodes |-> Len(root_nodes),
                     leaf_nodes |-> Len(leaf_nodes)]]

\* lines 142-151: the roots and the leaves of the dependency map
flow_classified(nodes, edges, dependencies) ==
    flow_result(nodes, edges, dependencies,
                find_roots(dependencies, 1), find_leaves(dependencies, 1))

\* lines 89-176, with st = [c, nodes, edges] as the recipe loop leaves them
flow_return(st) ==
    Return(st.c, flow_classified(st.nodes, st.edges,
                                 calculate_dependencies(EmptyDeps, st.edges, 1)))

get_project_flow(c, project_key, datasets, recipes) ==
    ExceptReturn(
        flow_return(
            recipe_loop([c |-> Do(Do(get_project(c, project_key),
                                     <<"list_datasets", project_key>>),
                                  <<"list_recipes", project_key>>),
                         nodes |-> dataset_nodes(datasets, 1), edges |-> <<>>],
                        recipes, 1)),
        "Failed to get project flow: ")

(***************************************************************************)
(* advanced_scenarios.py: clone_scenario                                   *)
(*                                                                         *)
(* Python lists and dicts are objects: the heap holds the lists (sequences *)
(* of element addresses) and the elements (the step and trigger dicts), so *)
(* that a copy which shares objects with its original is distinguishable   *)
(* from one which does not.                                                *)
(***************************************************************************)
\* a dict.update(b)
Update(a, b) ==
    [k \in DOMAIN a \cup DOMAIN b |-> IF k \in DOMAIN b THEN b[k] ELSE a[k]]

\* A dict key or list index: an int [int |-> n] or a str [str |-> s].
PyInt(n) == [int |-> n]
PyStr(x) == [str |-> x]
IsInt(v) == "int" \in DOMAIN v

\* The list at address l, as the sequence of its elements' values.
Deref(h, l) == [i \in 1..Len(h.lists[l]) |-> h.elems[h.lists[l][i]]]

\* copy.copy(list): a new list object holding the same element objects.
shallow_copy(h, l) ==
    [h |-> [h EXCEPT !.lists = Append(@, h.lists[l])], addr |-> Len(h.lists) + 1]

\* copy.deepcopy(list): a new list object holding copies of the elements.
deepcopy(h, l) ==
    LET old == h.lists[l]
        n == Len(h.elems)
    IN  [h |-> [lists |-> Append(h.lists, [i \in 1..Len(old) |-> n + i]),
                elems |-> h.elems \o [i \in 1..Len(old) |-> h.elems[old[i]]]],
         addr |-> Len(h.lists) + 1]

\* The 1-based position Python's list[i] addresses, for -len <= i < len.
Pos(i, n) == IF i < 0 THEN n + i + 1 ELSE i + 1
InRange(i, n) == -n <= i /\ i < n

RemoveAt(q, j) == [i \in 1..(Len(q) - 1) |-> IF i < j THEN q[i] ELSE q[i + 1]]

RECURSIVE Insert(_, _)
\* v inserted into the descending sequence q
Insert(q, v) ==
    IF q = <<>> THEN <<v>>
    ELSE IF v >= Head(q) THEN <<v>> \o q
    ELSE <<Head(q)>> \o Insert(Tail(q), v)

RECURSIVE InsertAscending(_, _)
InsertAscending(q, v) ==
    IF q = <<>> THEN <<v>>
    ELSE IF v <= Head(q) THEN <<v>> \o q
    ELSE <<Head(q)>> \o InsertAscending(Tail(q), v)

RECURSIVE sorted_ascending(_)
\* sorted(indices), without reverse=True
sorted_ascending(q) ==
    IF q = <<>> THEN <<>> ELSE InsertAscending(sorted_ascending(Tail(q)), Head(q))

RECURSIVE sorted_reverse(_)
\* sorted(indices, reverse=True)
sorted_reverse(q) ==
    IF q = <<>> THEN <<>> ELSE Insert(sorted_reverse(Tail(q)), Head(q))

\* lines 448-452: step["params"].update(step_changes["params"])
changed_params(step, step_changes) ==
    IF "params" \in DOMAIN step_changes
    THEN [step EXCEPT !.params = Update(@, step_changes.params)]
    ELSE step

\* lines 454-469: the code of a custom_python step
changed_code(step, step_changes) ==
    IF "code" \in DOMAIN step_changes /\ "type" \in DOMAIN step /\ step.type = "custom_python"
    THEN Update(step, [params |-> Update(GetOr(step, "params", <<>>),
                                         [script |-> step_changes.code])])
    ELSE step

\* lines 471-475: step["name"] = step_changes["name"]
changed_name(step, step_changes) ==
    IF "name" \in DOMAIN step_changes
    THEN Update(step, [name |-> step_changes.name])
    ELSE step

\* lines 477-480: step["enabled"] = step_changes["enabled"]
changed_enabled(step, step_changes) ==
    IF "enabled" \in DOMAIN step_changes
    THEN Update(step, [enabled |-> step_changes.enabled])
    ELSE step

\* lines 448-480 on the step dict at address a
modify_step_at(k, a, step_changes) ==
    IF "params" \in DOMAIN step_changes /\ "params" \notin DOMAIN k.h.elems[a]
    THEN [k EXCEPT !.c = Raise(@, "KeyError", "'params'")]
    ELSE [k EXCEPT !.h.elems[a] =
             changed_enabled(
                 changed_name(
                     changed_code(changed_params(@, step_changes), step_changes),
                     step_changes),
                 step_changes)]

\* One item of step_modifications.items(): lines 437-480.
modify_step(k, step_index, step_changes) ==
    IF ~Live(k.c) THEN k
    ELSE IF ~IsInt(step_index)
    THEN [k EXCEPT !.c = Raise(@, "TypeError",
                               "'<' not supported between instances of 'str' and 'int'")]
    ELSE IF ~(step_index.int < Len(k.h.lists[k.steps])) THEN k
    ELSE IF ~InRange(step_index.int, Len(k.h.lists[k.steps]))
    THEN [k EXCEPT !.c = Raise(@, "IndexError", "list index out of range")]
    ELSE modify_step_at(k, k.h.lists[k.steps][Pos(step_index.int, Len(k.h.lists[k.steps]))],
                        step_changes)

RECURSIVE modify_steps(_, _, _)
\* for step_index, step_changes in step_mods.items()
modify_steps(k, items, j) ==
    IF j > Len(items) THEN k
    ELSE modify_steps(modify_step(k, items[j][1], items[j][2]), items, j + 1)

\* One item of trigger_modifications.items(): lines 489-503.
modify_trigger(k, trigger_index, trigger_changes) ==
    IF ~Live(k.c) THEN k
    ELSE IF ~IsInt(trigger_index)
    THEN [k EXCEPT !.c = Raise(@, "TypeError",
                               "'<' not supported between instances of 'str' and 'int'")]
    ELSE IF ~(trigger_index.int < Len(k.h.lists[k.triggers])) THEN k
    ELSE IF ~InRange(trigger_index.int, Len(k.h.lists[k.triggers]))
    THEN [k EXCEPT !.c = Raise(@, "IndexError", "list index out of range")]
    ELSE [k EXCEPT !.h.elems[k.h.lists[k.triggers][Pos(trigger_index.int,
                                                       Len(k.h.lists[k.triggers]))]] =
             Update(@, trigger_changes)]

RECURSIVE modify_triggers(_, _, _)
\* for trigger_index, trigger_changes in trigger_mods.items()
modify_triggers(k, items, j) ==
    IF j > Len(items) THEN k
    ELSE modify_triggers(modify_trigger(k, items[j][1], items[j][2]), items, j + 1)

\* new_settings.raw_triggers.extend(modifications["new_triggers"])
extend_triggers(k, new_triggers) ==
    IF ~Live(k.c) THEN k
    ELSE [k EXCEPT !.h.elems = @ \o new_triggers,
                   !.h.lists[k.triggers] =
                       @ \o [i \in 1..Len(new_triggers) |-> Len(k.h.elems) + i]]

\* if trigger_index < len(raw_triggers): del raw_triggers[trigger_index]
remove_trigger(k, trigger_index) ==
    IF ~Live(k.c) THEN k
    ELSE IF ~(trigger_index < Len(k.h.lists[k.triggers])) THEN k
    ELSE IF ~InRange(trigger_index, Len(k.h.lists[k.triggers]))
    THEN [k EXCEPT !.c = Raise(@, "IndexError", "list assignment index out of range")]
    ELSE [k EXCEPT !.h.lists[k.triggers] = RemoveAt(@, Pos(trigger_index, Len(@)))]

RECURSIVE remove_loop(_, _, _)
\* for trigger_index in indices
remove_loop(k, indices, j) ==
    IF j > Len(indices) THEN k
    ELSE remove_loop(remove_trigger(k, indices[j]), indices, j + 1)

\* Removal in ascending order of index.
remove_triggers_ascending(k, listed) ==
    remove_loop(k, sorted_ascending(listed), 1)

\* lines 512-525
remove_triggers(k, listed) ==
    remove_loop(k, sorted_reverse(listed), 1)

\* lines 404-424: one metadata key, description or tags
set_metadata_key(k, key, modifications) ==
    IF key \in DOMAIN modifications
    THEN [k EXCEPT !.c = Do(Do(@, <<"get_metadata", "new">>), <<"set_metadata", "new">>)]
    ELSE k

\* lines 427-430: new_settings.active = modifications["active"]
set_active(k, modifications) ==
    IF "active" \in DOMAIN modifications /\ Live(k.c)
    THEN [k EXCEPT !.active = modifications.active]
    ELSE k

\* lines 433-480
apply_step_modifications(k, modifications) ==
    IF "step_modifications" \in DOMAIN modifications
    THEN modify_steps(k, modifications.step_modifications, 1)
    ELSE k

\* lines 483-503
apply_trigger_modifications(k, modifications) ==
    IF "trigger_modifications" \in DOMAIN modifications
    THEN modify_triggers(k, modifications.trigger_modifications, 1)
    ELSE k

\* lines 506-509
apply_new_triggers(k, modifications) ==
    IF "new_triggers" \in DOMAIN modifications
    THEN extend_triggers(k, modifications.new_triggers)
    ELSE k

\* The patches with the new triggers appended before the triggers are modified.
apply_modifications_reordered(k, modifications) ==
    IF DOMAIN modifications = {} THEN k
    ELSE apply_trigger_modifications(
             apply_new_triggers(
                 apply_step_modifications(
                     set_active(
                         set_metadata_key(
                             set_metadata_key(k, "description", modifications),
                             "tags", modifications),
                         modifications),
                     modifications),
                 modifications),
             modifications)

\* lines 402-509: if modifications: ... up to the extension by new_triggers
apply_modifications(k, modifications) ==
    IF DOMAIN modifications = {} THEN k
    ELSE apply_new_triggers(
             apply_trigger_modifications(
                 apply_step_modifications(
                     set_active(
                         set_metadata_key(
                             set_metadata_key(k, "description", modifications),
                             "tags", modifications),
                         modifications),
                     modifications),
                 modifications),
             modifications)

\* lines 511-525: if "remove_triggers" in modifications: ...
apply_removals(k, modifications) ==
    IF "remove_triggers" \in DOMAIN modifications
    THEN remove_triggers(k, modifications.remove_triggers)
    ELSE k

\* The heap when source_settings has been fetched: list 1 is
\* source_settings.raw_steps, list 2 is source_settings.raw_triggers.
SourceHeap(source) ==
    [lists |-> <<[i \in 1..Len(source.raw_steps) |-> i],
                 [i \in 1..Len(source.raw_triggers) |-> Len(source.raw_steps) + i]>>,
     elems |-> source.raw_steps \o source.raw_triggers]

\* A clone whose lists share the step and trigger dicts with the source.
copy_lists_shallow(h) ==
    LET s == shallow_copy(h, 1)
        t == shallow_copy(s.h, 2)
    IN  [h |-> t.h, steps |-> s.addr, triggers |-> t.addr]

\* lines 391-399: the two copy.deepcopy assignments
copy_lists(h) ==
    LET s == deepcopy(h, 1)
        t == deepcopy(s.h, 2)
    IN  [h |-> t.h, steps |-> s.addr, triggers |-> t.addr]

\* The clone in progress: the context c, the heap h, the list addresses
\* new_settings.raw_steps and new_settings.raw_triggers refer to, and active.
clone_state(c, cp, source) ==
    [c |-> c, h |-> cp.h, steps |-> cp.steps, triggers |-> cp.triggers,
     active |-> source.active]

\* lines 530-562: the result dict
clone_result(k, source, new_scenario_name, modifications) ==
    [status |-> "ok",
     new_scenario_name |-> new_scenario_name,
     scenario_info |-> [name |-> new_scenario_name, type |-> source.type,
                        active |-> k.active,
                        step_count |-> Len(k.h.lists[k.steps]),
                        trigger_count |-> Len(k.h.lists[k.triggers])],
     modifications_applied |-> DOMAIN modifications]

\* The objects in memory when the call ends; k1 is the clone before the removals.
clone_memory(k1, k2) ==
    [source_settings |-> [raw_steps |-> Deref(k2.h, 1), raw_triggers |-> Deref(k2.h, 2)],
     new_settings |-> [raw_steps |-> Deref(k2.h, k2.steps),
                       raw_triggers |-> Deref(k2.h, k2.triggers)],
     before_removal |-> Deref(k1.h, k1.triggers)]

\* An ending that deletes the created scenario when the call failed.
clone_saved_rollback(k1, k2, source, new_scenario_name, modifications) ==
    LET c == Return(Do(k2.c, <<"save", "new">>),
                    clone_result(k2, source, new_scenario_name, modifications))
    IN  [(IF c.exc
          THEN [Do(ExceptContinue(c), <<"delete", "new">>)
                   EXCEPT !.exc = FALSE, !.ret = Err("Failed to clone scenario: " \o c.etext)]
          ELSE c)
            EXCEPT !.mem = clone_memory(k1, k2)]

\* lines 528-570: new_settings.save(), the result, and the outer except
clone_saved(k1, k2, source, new_scenario_name, modifications) ==
    [ExceptReturn(Return(Do(k2.c, <<"save", "new">>),
                         clone_result(k2, source, new_scenario_name, modifications)),
                  "Failed to clone scenario: ")
        EXCEPT !.mem = clone_memory(k1, k2)]

\* lines 511-570
clone_removed(k1, source, new_scenario_name, modifications) ==
    clone_saved(k1, apply_removals(k1, modifications),
                source, new_scenario_name, modifications)

\* lines 365-385: the SDK calls up to new_scenario.get_settings()
clone_created(c, project_key, new_scenario_name) ==
    Do(Do(Do(Do(Do(Do(get_project(c, project_key),
                      <<"get_scenario", "source">>),
                   <<"get_settings", "source">>),
                <<"get_metadata", "source">>),
             <<"get_definition", "source">>),
          <<"create_scenario", new_scenario_name>>),
       <<"get_settings", "new">>)

clone_scenario(c, project_key, source, new_scenario_name, modifications) ==
    clone_removed(
        apply_modifications(
            clone_state(clone_created(c, project_key, new_scenario_name),
                        copy_lists(SourceHeap(source)), source),
            modifications),
        source, new_scenario_name, modifications)

(***************************************************************************)
(* scenarios.py: remove_scenario_trigger                                   *)
(*   triggers: the list settings.get_triggers() returns; mem.triggers is   *)
(*   that list when the call ends                                          *)
(***************************************************************************)
\* lines 550-584: settings.save() has led to the context c5; triggers is the list
\* after the deletion
trigger_removed(c5, scenario_id, trigger_idx, trigger_info, triggers) ==
    [Return(c5, [status |-> "ok", scenario_id |-> scenario_id,
                 removed_trigger |-> [index |-> trigger_idx,
                                      type |-> GetOr(trigger_info, "type", "unknown"),
                                      name |-> GetOr(trigger_info, "name", "unnamed")],
                 remaining_triggers |-> Len(triggers) - 1,
                 message |-> "Trigger removed from scenario '" \o scenario_id
                             \o "' successfully"])
        EXCEPT !.mem = [triggers |-> triggers]]

\* A check of the index against the length only.
remove_checked_upper(c4, scenario_id, trigger_idx, triggers) ==
    IF ~Live(c4) THEN [c4 EXCEPT !.mem = [triggers |-> triggers]]
    ELSE IF trigger_idx >= Len(triggers)
    THEN [Return(c4, Err("Invalid trigger index")) EXCEPT !.mem = [triggers |-> triggers]]
    ELSE IF ~InRange(trigger_idx, Len(triggers))
    THEN [Raise(c4, "IndexError", "list index out of range")
             EXCEPT !.mem = [triggers |-> triggers]]
    ELSE trigger_removed(Do(c4, <<"save", scenario_id>>), scenario_id, trigger_idx,
                         triggers[Pos(trigger_idx, Len(triggers))],
                         RemoveAt(triggers, Pos(trigger_idx, Len(triggers))))

\* lines 539-553: the index check, trigger_info = triggers[trigger_idx] and
\* del triggers[trigger_idx]; c4 is the context after settings.get_triggers()
remove_checked(c4, scenario_id, trigger_idx, triggers) ==
    IF ~Live(c4) THEN [c4 EXCEPT !.mem = [triggers |-> triggers]]
    ELSE IF trigger_idx < 0 \/ trigger_idx >= Len(triggers)
    THEN [Return(c4, Err("Invalid trigger index")) EXCEPT !.mem = [triggers |-> triggers]]
    ELSE trigger_removed(Do(c4, <<"save", scenario_id>>), scenario_id, trigger_idx,
                         triggers[trigger_idx + 1], RemoveAt(triggers, trigger_idx + 1))

\* lines 531-594
remove_scenario_trigger(c, project_key, scenario_id, trigger_idx, triggers) ==
    ExceptReturn(
        remove_checked(Do(Do(Do(get_project(c, project_key),
                                   <<"get_scenario", scenario_id>>),
                                <<"get_settings", scenario_id>>),
                             <<"get_triggers", scenario_id>>),
                       scenario_id, trigger_idx, triggers),
        "Failed to remove trigger from scenario '" \o scenario_id \o "': ")

(***************************************************************************)
(* scenarios.py: update_scenario                                           *)
(*   kwargs: a dict with any of description, tags, custom_fields, name,    *)
(*   active, definition, step_script, step_index                           *)
(*   k = [c, raw_steps]: the context and settings.raw_steps                *)
(***************************************************************************)
metadata_keys == {"description", "tags", "custom_fields"}
settings_keys == {"name", "active", "definition", "step_script"}

\* updated_fields when the call reaches its return: one append per key given, in
\* the order of the code
updated_fields(kwargs) ==
    SelectSeq(<<"description", "tags", "custom_fields", "name", "active", "definition",
                "step_script">>,
              LAMBDA key : key \in DOMAIN kwargs)

\* lines 120-143: get_metadata(), the keys, set_metadata(metadata)
scenario_metadata_updated(c, scenario_id, kwargs) ==
    IF metadata_keys \cap DOMAIN kwargs # {}
    THEN Do(Do(c, <<"get_metadata", scenario_id>>), <<"set_metadata", scenario_id>>)
    ELSE c

\* lines 163-181: get_definition() and set_definition(); where the settings object
\* has no get_definition the AttributeError is caught and settings.data updated
scenario_definition_updated(c, scenario_id, kwargs, definition_api) ==
    IF "definition" \in DOMAIN kwargs /\ definition_api
    THEN Do(Do(c, <<"get_definition", scenario_id>>), <<"set_definition", scenario_id>>)
    ELSE c

\* step["params"]["script"] = script_code, creating params when missing
script_set(step, script_code) ==
    [k \in DOMAIN step \cup {"params"} |->
        IF k = "params"
        THEN [p \in DOMAIN GetOr(step, "params", <<>>) \cup {"script"} |->
                 IF p = "script" THEN script_code ELSE step.params[p]]
        ELSE step[k]]

\* A step_script that is dropped when its target is not a custom_python step.
step_script_skipped(k, step_index, script_code) ==
    IF ~Live(k.c) THEN k
    ELSE IF InRange(step_index, Len(k.raw_steps))
            /\ GetOr(k.raw_steps[Pos(step_index, Len(k.raw_steps))], "type", "")
                  = "custom_python"
    THEN [k EXCEPT !.raw_steps[Pos(step_index, Len(k.raw_steps))] = script_set(@, script_code)]
    ELSE k

\* lines 192-220: if step_index < len(raw_steps): ... else: raise ValueError
step_script_updated(k, step_index, script_code) ==
    IF ~Live(k.c) THEN k
    ELSE IF ~(step_index < Len(k.raw_steps))
    THEN [k EXCEPT !.c = Raise(@, "ValueError", "Step index is out of range")]
    ELSE IF ~InRange(step_index, Len(k.raw_steps))
    THEN [k EXCEPT !.c = Raise(@, "IndexError", "list index out of range")]
    ELSE IF GetOr(k.raw_steps[Pos(step_index, Len(k.raw_steps))], "type", "")
               = "custom_python"
    THEN [k EXCEPT !.raw_steps[Pos(step_index, Len(k.raw_steps))] = script_set(@, script_code)]
    ELSE [k EXCEPT !.c = Raise(@, "ValueError", "Step is not a custom_python step")]

\* lines 183-190: if 'step_script' in kwargs: step_index = kwargs.get('step_index', 0)
scenario_step_script(k, kwargs) ==
    IF "step_script" \in DOMAIN kwargs
    THEN step_script_updated(k, GetOr(kwargs, "step_index", 0), kwargs.step_script)
    ELSE k

\* line 222: settings.save()
scenario_saved(k, scenario_id) == [k EXCEPT !.c = Do(@, <<"save", scenario_id>>)]

\* lines 145-222: the settings; c2 is the context after the metadata
scenario_settings_updated(c2, scenario_id, kwargs, scenario) ==
    IF settings_keys \cap DOMAIN kwargs # {}
    THEN scenario_saved(
             scenario_step_script(
                 [c |-> scenario_definition_updated(Do(c2, <<"get_settings", scenario_id>>),
                                                    scenario_id, kwargs,
                                                    scenario.definition_api),
                  raw_steps |-> scenario.raw_steps],
                 kwargs),
             scenario_id)
    ELSE [c |-> c2, raw_steps |-> scenario.raw_steps]

\* lines 224-241: the result, and the outer except
update_scenario_return(k, scenario_id, kwargs) ==
    [ExceptReturn(Return(k.c, [status |-> "ok", scenario_id |-> scenario_id,
                               updated_fields |-> updated_fields(kwargs),
                               message |-> "Scenario '" \o scenario_id
                                           \o "' updated successfully"]),
                  "Failed to update scenario '" \o scenario_id \o "': ")
        EXCEPT !.mem = [raw_steps |-> k.raw_steps]]

\* scenario: the steps of the scenario on the platform, and whether its settings
\* object has get_definition
update_scenario(c, project_key, scenario_id, kwargs, scenario) ==
    update_scenario_return(
        scenario_settings_updated(
            scenario_metadata_updated(
                Do(get_project(c, project_key), <<"get_scenario", scenario_id>>),
                scenario_id, kwargs),
            scenario_id, kwargs, scenario),
        scenario_id, kwargs)

(***************************************************************************)
(* scenarios.py: run_scenario                                              *)
(*   run_result: the attributes of the object run_and_wait() returns       *)
(***************************************************************************)
\* str.upper() on the outcomes the model passes.
Upper(s) ==
    CASE s = "failed" -> "FAILED"
      [] s = "Failed" -> "FAILED"
      [] s = "success" -> "SUCCESS"
      [] s = "unknown" -> "UNKNOWN"
      [] OTHER -> s

\* lines 630-634 and 650-653: getattr(run_result, 'outcome', 'unknown'), upper-cased
run_outcome(run_result) == Upper(GetOr(run_result, "outcome", "unknown"))

\* A status that reports a failed run whatever no_fail says.
run_status_strict(outcome, no_fail) ==
    IF outcome = "FAILED" THEN "error" ELSE "ok"

\* lines 654-675: the status for the outcome
run_status(outcome, no_fail) ==
    IF outcome = "SUCCESS" THEN "ok"
    ELSE IF outcome = "FAILED" THEN (IF ~no_fail THEN "error" ELSE "ok")
    ELSE "ok"

\* lines 654-675: the message for the outcome
run_message(outcome, scenario_id) ==
    IF outcome = "SUCCESS" THEN "Scenario '" \o scenario_id \o "' ran successfully"
    ELSE IF outcome = "FAILED" THEN "Scenario '" \o scenario_id \o "' run failed"
    ELSE "Scenario '" \o scenario_id \o "' run completed with outcome: " \o outcome

\* lines 623-681: c2 is the context after project.get_scenario(scenario_id)
run_waited(c2, scenario_id, no_fail, run_result) ==
    Return(Do(c2, <<"run_and_wait", scenario_id>>),
           [status |-> run_status(run_outcome(run_result), no_fail),
            run_info |-> [scenario_id |-> scenario_id,
                          outcome |-> GetOr(run_result, "outcome", "unknown"),
                          waited_for_completion |-> TRUE],
            message |-> run_message(run_outcome(run_result), scenario_id)])

\* lines 683-698: scenario.run(), without waiting
run_initiated(c2, scenario_id) ==
    Return(Do(c2, <<"run", scenario_id>>),
           [status |-> "ok", scenario_id |-> scenario_id,
            waited_for_completion |-> FALSE,
            message |-> "Scenario '" \o scenario_id \o "' run initiated successfully"])

\* lines 619-712: if wait: ... else: ..., and the outer except
run_started(c2, scenario_id, wait, no_fail, run_result) ==
    ExceptReturn(IF wait THEN run_waited(c2, scenario_id, no_fail, run_result)
                 ELSE run_initiated(c2, scenario_id),
                 "Failed to run scenario '" \o scenario_id \o "': ")

run_scenario(c, project_key, scenario_id, wait, no_fail, run_result) ==
    run_started(Do(get_project(c, project_key), <<"get_scenario", scenario_id>>),
                scenario_id, wait, no_fail, run_result)

(***************************************************************************)
(* productivity.py: duplicate_project_structure                            *)
(*   k = [c, copied]: the context and the copied_objects dict              *)
(*   SDK calls are logged as <<method, "source/<object>">> or              *)
(*   <<method, "target/<object>">>, by the handle, source_project or       *)
(*   target_project, the object was obtained from                          *)
(***************************************************************************)
\* copied_objects["errors"].append(text)
add_error(k, text) == [k EXCEPT !.copied.errors = Append(@, text)]

\* A handler that continues without recording the failure.
except_record_silent(k, prefix) ==
    [k EXCEPT !.c = ExceptContinue(@)]

\* except Exception as e: copied_objects["errors"].append(prefix + str(e))
except_record(k, prefix) ==
    IF k.c.exc
    THEN [add_error(k, prefix \o k.c.etext) EXCEPT !.c = ExceptContinue(@)]
    ELSE k

\* "already exists" in str(e).lower()
already_exists(text) == text = "Project already exists"

code_types == {"python", "r", "sql", "pyspark", "scala", "shell"}

\* k when the calls so far have led to the context c
at(k, c) == [k EXCEPT !.c = c]

\* lines 138-160: the nested try around the data copy
copy_data(k, dataset, include_data) ==
    IF Live(k.c) /\ include_data /\ dataset.type \in {"managed", "filesystem"}
    THEN except_record(
             [k EXCEPT !.c = Do(Do(@, <<"get_dataframe", "source/" \o dataset.name>>),
                                <<"write_with_schema", "target/" \o dataset.name>>)],
             "Failed to copy data for " \o dataset.name \o ": ")
    ELSE k

\* lines 162-166: copied_objects["datasets"].append(...)
dataset_copied(k, dataset_name) ==
    IF Live(k.c) THEN [k EXCEPT !.copied.datasets = Append(@, dataset_name)] ELSE k

\* lines 112-173: the dataset whose settings and schema led to the context c3
copy_dataset_settings(k, c3, dataset, include_data) ==
    IF Live(c3) /\ dataset.type = "UploadedFiles"
    THEN add_error(at(k, c3), "Skipped uploaded file dataset: " \o dataset.name)
    ELSE except_record(
             dataset_copied(
                 copy_data(at(k, Do(Do(Do(Do(c3,
                                             <<"get_raw", "source/" \o dataset.name>>),
                                          <<"get_raw", "source/" \o dataset.name>>),
                                       <<"create_dataset", "target/" \o dataset.name>>),
                                    <<"set_schema", "target/" \o dataset.name>>)),
                           dataset, include_data),
                 dataset.name),
             "Failed to copy dataset " \o dataset.name \o ": ")

\* lines 95-173: one dataset
copy_dataset(k, dataset, include_data) ==
    copy_dataset_settings(k,
                          Do(Do(Do(k.c, <<"get_dataset", "source/" \o dataset.name>>),
                                <<"get_settings", "source/" \o dataset.name>>),
                             <<"get_schema", "source/" \o dataset.name>>),
                          dataset, include_data)

RECURSIVE copy_datasets(_, _, _, _)
\* for dataset in datasets
copy_datasets(k, datasets, i, include_data) ==
    IF i > Len(datasets) \/ ~Live(k.c) THEN k
    ELSE copy_datasets(copy_dataset(k, datasets[i], include_data),
                       datasets, i + 1, include_data)

\* try: builder.with_input(inp) except Exception: errors.append(text)
add_ref(k, c1, text) ==
    IF c1.exc THEN add_error(at(k, ExceptContinue(c1)), text) ELSE at(k, c1)

RECURSIVE add_refs(_, _, _, _, _)
\* for inp in inputs: try: builder.with_input(inp) except Exception: errors.append(...)
add_refs(k, method, recipe, refs, i) ==
    IF i > Len(refs) \/ ~Live(k.c) THEN k
    ELSE add_refs(add_ref(k, Do(k.c, <<method, "target/" \o recipe.name>>),
                          "Failed to add " \o refs[i] \o " to recipe " \o recipe.name),
                  method, recipe, refs, i + 1)

\* lines 260-278: the nested try around the code copy
copy_code(k, recipe) ==
    IF Live(k.c) /\ recipe.type \in code_types
    THEN except_record(
             [k EXCEPT !.c = Do(Do(@, <<"get_code", "source/" \o recipe.name>>),
                                <<"set_code", "target/" \o recipe.name>>)],
             "Failed to copy code for recipe " \o recipe.name \o ": ")
    ELSE k

\* lines 281-298: the nested try around the recipe parameters
copy_recipe_params(k, recipe) ==
    IF Live(k.c)
    THEN except_record(
             [k EXCEPT !.c = Do(Do(@, <<"get_recipe_params", "source/" \o recipe.name>>),
                                <<"set_recipe_params", "target/" \o recipe.name>>)],
             "Failed to copy parameters for recipe " \o recipe.name \o ": ")
    ELSE k

\* lines 302-310: copied_objects["recipes"].append(...)
recipe_saved(k, c7, recipe_name) ==
    IF Live(c7)
    THEN [k EXCEPT !.c = c7, !.copied.recipes = Append(@, recipe_name)]
    ELSE at(k, c7)

\* lines 300-310: target_settings.save(), then the append
recipe_copied(k, recipe) ==
    recipe_saved(k, Do(k.c, <<"save", "target/" \o recipe.name>>), recipe.name)

\* lines 178-317: one recipe
copy_recipe(k, recipe) ==
    except_record(
        recipe_copied(
            copy_recipe_params(
                copy_code(
                    [add_refs(
                         add_refs(at(k, Do(Do(Do(Do(k.c,
                                                    <<"get_recipe", "source/" \o recipe.name>>),
                                                 <<"get_settings", "source/" \o recipe.name>>),
                                              <<"get_definition", "source/" \o recipe.name>>),
                                           <<"new_recipe", "target/" \o recipe.name>>)),
                                  "with_input", recipe, recipe.inputs, 1),
                         "with_output", recipe, recipe.outputs, 1)
                        EXCEPT !.c = Do(Do(@, <<"build", "target/" \o recipe.name>>),
                                        <<"get_settings", "target/" \o recipe.name>>)],
                    recipe),
                recipe),
            recipe),
        "Failed to copy recipe " \o recipe.name \o ": ")

RECURSIVE copy_recipes(_, _, _)
\* for recipe in recipes
copy_recipes(k, recipes, i) ==
    IF i > Len(recipes) \/ ~Live(k.c) THEN k
    ELSE copy_recipes(copy_recipe(k, recipes[i]), recipes, i + 1)

\* lines 374-386: copied_objects["scenarios"].append(...)
scenario_copied(k, c8, scenario_name) ==
    IF Live(c8)
    THEN [k EXCEPT !.c = c8, !.copied.scenarios = Append(@, scenario_name)]
    ELSE at(k, c8)

\* lines 322-393: one scenario
copy_scenario(k, scenario) ==
    except_record(
        scenario_copied(k,
                        Do(Do(Do(Do(Do(Do(Do(Do(k.c,
                            <<"get_scenario", "source/" \o scenario.name>>),
                            <<"get_settings", "source/" \o scenario.name>>),
                            <<"get_metadata", "source/" \o scenario.name>>),
                            <<"get_definition", "source/" \o scenario.name>>),
                            <<"create_scenario", "target/" \o scenario.name>>),
                            <<"get_settings", "target/" \o scenario.name>>),
                            <<"save", "target/" \o scenario.name>>),
                            <<"set_metadata", "target/" \o scenario.name>>),
                        scenario.name),
        "Failed to copy scenario " \o scenario.name \o ": ")

RECURSIVE copy_scenarios(_, _, _)
\* for scenario in scenarios
copy_scenarios(k, scenarios, i) ==
    IF i > Len(scenarios) \/ ~Live(k.c) THEN k
    ELSE copy_scenarios(copy_scenario(k, scenarios[i]), scenarios, i + 1)

\* lines 43-55: except Exception as e, around client.create_project
target_project(c1, target_project_key) ==
    IF c1.exc
    THEN IF already_exists(c1.etext)
         THEN get_project(ExceptContinue(c1), target_project_key)
         ELSE ExceptReturn(c1, "Failed to create target project: ")
    ELSE c1

\* lines 36-55: create the target project, or reuse the existing one
create_target(c, target_project_key) ==
    IF ~Live(c) THEN c
    ELSE target_project(Do(c, <<"create_project", target_project_key>>),
                        target_project_key)

\* lines 74-85: copied_objects["variables"] = the names of the source variables
variables_copied(k, c2, source) ==
    IF Live(c2)
    THEN [k EXCEPT !.c = c2, !.copied.variables = source.variables]
    ELSE at(k, c2)

\* lines 66-90: the project variables
copy_variables(k, source) ==
    IF Live(k.c)
    THEN except_record(variables_copied(k,
                                        Do(Do(k.c, <<"get_variables", "source/">>),
                                           <<"set_variables", "target/">>),
                                        source),
                       "Failed to copy variables: ")
    ELSE k

\* lines 57-64: copied_objects = {...}
new_copied(c) ==
    [c |-> c,
     copied |-> [datasets |-> <<>>, recipes |-> <<>>, scenarios |-> <<>>,
                 variables |-> <<>>, errors |-> <<>>]]

\* lines 93, 176, 320: source_project.list_datasets(), list_recipes(), list_scenarios()
list_source(k, method) == [k EXCEPT !.c = Do(@, <<method, "source/">>)]

\* lines 396-438: the summary and the result dict
duplicate_result(copied_objects) ==
    [status |-> "ok",
     duplication_summary |->
         [datasets_copied |-> Len(copied_objects.datasets),
          recipes_copied |-> Len(copied_objects.recipes),
          scenarios_copied |-> Len(copied_objects.scenarios),
          variables_copied |-> Len(copied_objects.variables),
          total_errors |-> Len(copied_objects.errors),
          total_copied |-> Len(copied_objects.datasets) + Len(copied_objects.recipes)
                           + Len(copied_objects.scenarios)],
     copied_objects |-> copied_objects]

\* lines 433-448: return, and the outer except
duplicate_return(k) ==
    ExceptReturn(Return(k.c, duplicate_result(k.copied)),
                 "Failed to duplicate project structure: ")

\* source: what the source project lists: datasets, recipes, scenarios, variables
duplicate_project_structure(c, source_project_key, target_project_key, include_data, source) ==
    duplicate_return(
        copy_scenarios(
            list_source(
                copy_recipes(
                    list_source(
                        copy_datasets(
                            list_source(
                                copy_variables(
                                    new_copied(
                                        create_target(
                                            get_project(get_client(c), source_project_key),
                                            target_project_key)),
                                    source),
                                "list_datasets"),
                            source.datasets, 1, include_data),
                        "list_recipes"),
                    source.recipes, 1),
                "list_scenarios"),
            source.scenarios, 1))

(***************************************************************************)
(* productivity.py: batch_update_objects                                   *)
(*                                                                         *)
(* Matching works on characters, so the names and patterns of the model    *)
(* are spelled out: Spell gives the characters of each string used.        *)
(***************************************************************************)
Spell(x) ==
    CASE x = "" -> <<>>
      [] x = "da" -> <<"d", "a">>
      [] x = "Ab" -> <<"A", "b">>
      [] x = "a[1" -> <<"a", "[", "1">>
      [] x = "d" -> <<"d">>
      [] x = "^a" -> <<"^", "a">>
      [] x = "[" -> <<"[">>
      [] x = "A[" -> <<"A", "[">>
      [] x = "B$" -> <<"B", "$">>
      [] x = ".a" -> <<".", "a">>

\* str.lower(), character by character
LowerChar(ch) ==
    CASE ch = "A" -> "a"
      [] ch = "B" -> "b"
      [] ch = "D" -> "d"
      [] OTHER -> ch
LowerChars(q) == [i \in 1..Len(q) |-> LowerChar(q[i])]

\* needle in hay (Python's substring test)
Contains(hay, needle) ==
    \E i \in 0..(Len(hay) - Len(needle)) :
        \A j \in 1..Len(needle) : hay[i + j] = needle[j]

\* re.compile(pattern) raises re.error: an unterminated character set.
regex_invalid(p) == \E i \in 1..Len(p) : p[i] = "["

\* body found in hay, at the start and up to the end where the anchors say so
search_body(body, hay, at_start, at_end) ==
    \E i \in 0..(Len(hay) - Len(body)) :
        /\ at_start => i = 0
        /\ at_end => i + Len(body) = Len(hay)
        /\ \A j \in 1..Len(body) : body[j] = "." \/ hay[i + j] = body[j]

\* the pattern p1 that follows a leading "^", if any
search_anchored(p1, hay, at_start) ==
    IF p1 # <<>> /\ p1[Len(p1)] = "$"
    THEN search_body(LowerChars(SubSeq(p1, 1, Len(p1) - 1)), hay, at_start, TRUE)
    ELSE search_body(LowerChars(p1), hay, at_start, FALSE)

\* re.compile(pattern, re.IGNORECASE).search(name), for the patterns made of
\* literals, ".", a leading "^" and a trailing "$".
regex_search(p, name) ==
    IF p # <<>> /\ p[1] = "^"
    THEN search_anchored(Tail(p), LowerChars(name), TRUE)
    ELSE search_anchored(p, LowerChars(name), FALSE)

\* lines 793-800 and 812-824: the compiled pattern, or the substring fallback
matches(pattern, name) ==
    IF regex_invalid(Spell(pattern))
    THEN Contains(LowerChars(Spell(name)), LowerChars(Spell(pattern)))
    ELSE regex_search(Spell(pattern), Spell(name))

\* one of the two metadata keys: get_metadata(), set_metadata(metadata)
update_metadata_key(c, name, updates, key) ==
    IF key \in DOMAIN updates
    THEN Do(Do(c, <<"get_metadata", name>>), <<"set_metadata", name>>)
    ELSE c

\* lines 835-861, 925-951, 1028-1054: description, then tags
update_metadata(c, name, updates) ==
    update_metadata_key(update_metadata_key(c, name, updates, "description"),
                        name, updates, "tags")

\* lines 863-874: the dataset's settings
update_settings(c, name, updates) ==
    IF "settings" \in DOMAIN updates
    THEN Do(Do(Do(c, <<"get_settings", name>>), <<"get_raw", name>>), <<"save", name>>)
    ELSE c

\* lines 827-874: the try body for one dataset
update_dataset_item(c, object, updates) ==
    update_settings(update_metadata(Do(c, <<"get_dataset", object.name>>),
                                    object.name, updates),
                    object.name, updates)

\* lines 953-965: the code of a code recipe
update_code(c, object, updates) ==
    IF "code" \in DOMAIN updates /\ object.type \in code_types
    THEN Do(c, <<"set_code", object.name>>)
    ELSE c

\* lines 967-977: the recipe parameters
update_recipe_params(c, object, updates) ==
    IF "recipe_params" \in DOMAIN updates
    THEN Do(c, <<"set_recipe_params", object.name>>)
    ELSE c

\* lines 913-979: the try body for one recipe
update_recipe_item(c, object, updates) ==
    Do(update_recipe_params(
           update_code(
               update_metadata(Do(Do(c, <<"get_recipe", object.name>>),
                                  <<"get_settings", object.name>>),
                               object.name, updates),
               object, updates),
           object, updates),
       <<"save", object.name>>)

\* lines 1056-1064: the scenario's active flag
update_active(c, name, updates) ==
    IF "active" \in DOMAIN updates
    THEN Do(Do(c, <<"get_settings", name>>), <<"save", name>>)
    ELSE c

\* lines 1020-1064: the try body for one scenario
update_scenario_item(c, object, updates) ==
    update_active(update_metadata(Do(c, <<"get_scenario", object.name>>),
                                  object.name, updates),
                  object.name, updates)

update_item(c, kind, object, updates) ==
    CASE kind = "datasets" -> update_dataset_item(c, object, updates)
      [] kind = "recipes" -> update_recipe_item(c, object, updates)
      [] kind = "scenarios" -> update_scenario_item(c, object, updates)

\* An except clause that records nothing.
item_outcome_silent(k, c1, name) ==
    IF c1.exc
    THEN [k EXCEPT !.c = ExceptContinue(c1)]
    ELSE [k EXCEPT !.c = c1, !.updated_objects = Append(@, name)]

\* updated_objects.append(...) after the try body, failed_updates.append(...) in its except
item_outcome(k, c1, name) ==
    IF c1.exc
    THEN [k EXCEPT !.c = ExceptContinue(c1), !.failed_updates = Append(@, name)]
    ELSE [k EXCEPT !.c = c1, !.updated_objects = Append(@, name)]

RECURSIVE update_loop(_, _, _, _, _, _)
\* for object in objects: if matches: try: ... except Exception as e: failed_updates.append
\* k = [c, updated_objects, failed_updates]
update_loop(k, kind, objects, i, pattern, updates) ==
    IF i > Len(objects) \/ ~Live(k.c) THEN k
    ELSE IF ~matches(pattern, objects[i].name)
    THEN update_loop(k, kind, objects, i + 1, pattern, updates)
    ELSE update_loop(item_outcome(k, update_item(k.c, kind, objects[i], updates),
                                  objects[i].name),
                     kind, objects, i + 1, pattern, updates)

list_method(kind) ==
    CASE kind = "datasets" -> "list_datasets"
      [] kind = "recipes" -> "list_recipes"
      [] kind = "scenarios" -> "list_scenarios"

\* lines 1107-1135: the result dict, and the outer except
batch_return(k) ==
    ExceptReturn(Return(k.c, [status |-> "ok",
                              update_summary |->
                                  [objects_updated |-> Len(k.updated_objects),
                                   objects_failed |-> Len(k.failed_updates)],
                              updated_objects |-> k.updated_objects,
                              failed_updates |-> k.failed_updates]),
                 "Failed to batch update objects: ")

\* lines 805-1096: the branch on object_type.lower(); c1 is the context after get_project
batch_update_kind(c1, kind, project_key, object_type, pattern, updates, objects) ==
    IF kind \notin {"datasets", "recipes", "scenarios"}
    THEN ExceptReturn(
             Return(c1, Err("Unsupported object type: " \o object_type
                            \o ". Supported types: datasets, recipes, scenarios")),
             "Failed to batch update objects: ")
    ELSE batch_return(update_loop([c |-> Do(c1, <<list_method(kind), project_key>>),
                                   updated_objects |-> <<>>, failed_updates |-> <<>>],
                                  kind, objects, 1, pattern, updates))

\* objects: what the project lists for the requested type
batch_update_objects(c, project_key, object_type, pattern, updates, objects) ==
    batch_update_kind(get_project(c, project_key), Lower(object_type),
                      project_key, object_type, pattern, updates, objects)

(***************************************************************************)
(* datasets.py: get_dataset_post_write_statements                          *)
(*   raw_settings: the settings dict of the dataset, with or without the   *)
(*   key "params"; a list of statements is a sequence of strings           *)
(***************************************************************************)
\* A reading that indexes the dict: raw_settings["params"][key].
statements_indexed(c, raw_settings, key) ==
    IF "params" \notin DOMAIN raw_settings THEN Raise(c, "KeyError", "'params'")
    ELSE IF key \notin DOMAIN raw_settings.params
    THEN Raise(c, "KeyError", "'" \o key \o "'")
    ELSE Return(c, raw_settings.params[key])

\* lines 918-925: params = raw_settings.get("params", {}); params.get(key, []);
\* the list is left in ret
statements(c, raw_settings, key) ==
    Return(c, GetOr(GetOr(raw_settings, "params", <<>>), key, <<>>))

\* lines 927-950: the result dict, and the except
post_write_return(c, project_key, dataset_name, post, pre) ==
    ExceptReturn(
        IF post.exc THEN post
        ELSE IF pre.exc THEN pre
        ELSE Return(c, [status |-> "ok", dataset_name |-> dataset_name,
                        project_key |-> project_key,
                        pre_write_statements |-> pre.ret,
                        post_write_statements |-> post.ret,
                        has_pre_write |-> pre.ret # <<>>,
                        has_post_write |-> post.ret # <<>>,
                        message |-> "Post-write statements for dataset '" \o dataset_name
                                    \o "' retrieved successfully"]),
        "Failed to get post-write statements for dataset '" \o dataset_name \o "': ")

\* lines 906-917: c3 is the context after get_project, get_dataset and get_settings
post_write_statements(c3, project_key, dataset_name, raw_settings) ==
    post_write_return(c3, project_key, dataset_name,
                      statements(c3, raw_settings, "customPostWriteStatements"),
                      statements(c3, raw_settings, "customPreWriteStatements"))

get_dataset_post_write_statements(c, project_key, dataset_name, raw_settings) ==
    post_write_statements(
        Do(Do(get_project(c, project_key), <<"get_dataset", dataset_name>>),
           <<"get_settings", dataset_name>>),
        project_key, dataset_name, raw_settings)

(***************************************************************************)
(* project_exploration.py: search_project_objects                          *)
(*   k = [c, search_results]; the project lists objects with a name and,   *)
(*   optionally, a description and tags                                    *)
(***************************************************************************)
\* A fallback that compares without lower-casing either side.
substring_match_exact(term, text) == Contains(Spell(text), Spell(term))

\* lines 248-256: term = search_term.lower(); term in text.lower()
substring_match(term, text) == Contains(LowerChars(Spell(text)), LowerChars(Spell(term)))

\* lines 238-256: pattern.search(text) if pattern else term in text.lower()
text_matches(search_term, text) ==
    IF regex_invalid(Spell(search_term))
    THEN substring_match(search_term, text)
    ELSE regex_search(Spell(search_term), Spell(text))

\* lines 230-256: the name, the description or any tag matches
object_matches(search_term, object) ==
    \/ text_matches(search_term, object.name)
    \/ text_matches(search_term, GetOr(object, "description", ""))
    \/ \E i \in 1..Len(GetOr(object, "tags", <<>>)) :
          text_matches(search_term, object.tags[i])

RECURSIVE matching_objects(_, _, _)
\* lines 229-271: for dataset in datasets: if matches: matching_datasets.append(...)
matching_objects(search_term, objects, i) ==
    IF i > Len(objects) THEN <<>>
    ELSE (IF object_matches(search_term, objects[i]) THEN <<objects[i].name>> ELSE <<>>)
         \o matching_objects(search_term, objects, i + 1)

\* lines 227-275: search_results[kind] = the matching objects; c1 is the context
\* after project.list_<kind>()
search_listed(k, c1, kind, search_term, objects) ==
    IF Live(c1)
    THEN [c |-> c1,
          search_results |-> Update(k.search_results,
                                    [x \in {kind} |->
                                        matching_objects(search_term, objects, 1)])]
    ELSE [k EXCEPT !.c = c1]

\* lines 225-226, 278-279, 331-332: if kind in object_types: project.list_<kind>()
search_kind(k, kind, project_key, search_term, object_types, project) ==
    IF Live(k.c) /\ \E i \in 1..Len(object_types) : object_types[i] = kind
    THEN search_listed(k, Do(k.c, <<list_method(kind), project_key>>),
                       kind, search_term, project[kind])
    ELSE k

\* len(results) for one key of search_results, 0 for a key it does not have
matches_of(search_results, kind) ==
    IF kind \in DOMAIN search_results THEN Len(search_results[kind]) ELSE 0

\* lines 387-417: the statistics, the result dict and the outer except
search_return(k, object_types) ==
    ExceptReturn(
        Return(k.c, [status |-> "ok",
                     search_stats |->
                         [object_types_searched |-> object_types,
                          total_matches |-> matches_of(k.search_results, "datasets")
                                            + matches_of(k.search_results, "recipes")
                                            + matches_of(k.search_results, "scenarios")],
                     results |-> k.search_results]),
        "Failed to search project objects: ")

\* lines 204-385, with object_types a list
search_types(c, project_key, search_term, object_types, project) ==
    search_return(
        search_kind(
            search_kind(
                search_kind([c |-> get_project(c, project_key), search_results |-> <<>>],
                            "datasets", project_key, search_term, object_types, project),
                "recipes", project_key, search_term, object_types, project),
            "scenarios", project_key, search_term, object_types, project),
        object_types)

\* object_types: None or a list; project: what the project lists, by kind
search_project_objects(c, project_key, search_term, object_types, project) ==
    search_types(c, project_key, search_term,
                 IF object_types = None THEN <<"datasets", "recipes", "scenarios">>
                 ELSE object_types[1],
                 project)

(***************************************************************************)
(* project_exploration.py: get_dataset_sample                              *)
(***************************************************************************)
\* A fallback that reads the dataframe a second time.
sample_retry(c) ==
    IF c.exc
    THEN ExceptReturn(Do(ExceptContinue(c), <<"get_dataframe", "d1">>),
                      "Failed to read sample data: ")
    ELSE c

\* lines 503-534: the row iterator, tried when the dataframe could not be read
sample_fallback(c) ==
    IF c.exc
    THEN ExceptReturn(Do(ExceptContinue(c), <<"iter_rows", "d1">>),
                      "Failed to read sample data: ")
    ELSE c

\* lines 482-534: dataset.get_dataframe(limit=rows), or the fallback
read_sample(c) ==
    IF Live(c) THEN sample_fallback(Do(c, <<"get_dataframe", "d1">>)) ELSE c

\* lines 447-467: the requested columns the schema does not have
check_columns(c, columns, schema_columns) ==
    IF \E i \in 1..Len(columns) : \A j \in 1..Len(schema_columns) :
          columns[i] # schema_columns[j]
    THEN Return(c, Err("Invalid columns"))
    ELSE c

\* columns: the list given, <<>> for None; schema_columns: the names in the schema
get_dataset_sample(c, project_key, dataset_name, columns, schema_columns) ==
    ExceptReturn(
        Return(read_sample(
                   check_columns(Do(Do(get_project(c, project_key),
                                       <<"get_dataset", dataset_name>>),
                                    <<"get_schema", dataset_name>>),
                                 columns, schema_columns)),
               [status |-> "ok", dataset_name |-> dataset_name]),
        "Failed to get dataset sample: ")

(***************************************************************************)
(* monitoring_debug.py: cancel_running_jobs                                *)
(*   k = [c, jobs, cancelled_jobs, failed_cancellations]                   *)
(*   jobs[id] = [state, aborted]: the state of the job on the platform,    *)
(*   and the state it takes when abort() succeeds                          *)
(***************************************************************************)
\* failed_cancellations.append({"job_id": job_id, "error": ...}), in context c
cancel_failed(k, c, job_id, error) ==
    [k EXCEPT !.c = c,
              !.failed_cancellations = Append(@, [job_id |-> job_id, error |-> error])]

\* lines 464-513: the verification; c3 is the context after the second get_job
verify_cancelled(k, c3, job_id, previous_state) ==
    [k EXCEPT !.c = ExceptContinue(c3),
              !.cancelled_jobs =
                  Append(@, [job_id |-> job_id, previous_state |-> previous_state,
                             new_state |-> IF c3.exc THEN "unknown"
                                           ELSE k.jobs[job_id].state,
                             cancelled_successfully |->
                                 c3.exc \/ k.jobs[job_id].state \in {"ABORTED", "CANCELLED"}])]

\* lines 461-522: c2 is the context after job.abort()
job_aborted(k, c2, job_id, previous_state) ==
    IF c2.exc
    THEN cancel_failed(k, ExceptContinue(c2), job_id, "Failed to cancel job: " \o c2.etext)
    ELSE verify_cancelled([k EXCEPT !.jobs[job_id].state = k.jobs[job_id].aborted],
                          Do(c2, <<"get_job", job_id>>), job_id, previous_state)

\* A cancellation that aborts the job whatever its state.
job_observed_unchecked(k, c1, job_id) ==
    IF c1.exc
    THEN cancel_failed(k, ExceptContinue(c1), job_id, "Failed to cancel job: " \o c1.etext)
    ELSE job_aborted(k, Do(c1, <<"abort", job_id>>), job_id, k.jobs[job_id].state)

\* lines 443-461: c1 is the context after client.get_job(job_id)
job_observed(k, c1, job_id) ==
    IF c1.exc
    THEN cancel_failed(k, ExceptContinue(c1), job_id, "Failed to cancel job: " \o c1.etext)
    ELSE IF k.jobs[job_id].state \notin {"RUNNING", "PENDING"}
    THEN cancel_failed(k, c1, job_id, "Job is not running")
    ELSE job_aborted(k, Do(c1, <<"abort", job_id>>), job_id, k.jobs[job_id].state)

RECURSIVE cancel_loop(_, _, _)
\* for job_id in job_ids
cancel_loop(k, job_ids, i) ==
    IF i > Len(job_ids) \/ ~Live(k.c) THEN k
    ELSE cancel_loop(job_observed(k, Do(k.c, <<"get_job", job_ids[i]>>), job_ids[i]),
                     job_ids, i + 1)

\* lines 524-600: list_jobs inside try/except: pass, the result and the outer except
cancel_return(k, job_ids) ==
    ExceptReturn(
        Return(IF Live(k.c) THEN ExceptContinue(Do(k.c, <<"list_jobs", "P">>)) ELSE k.c,
               [status |-> "ok",
                cancellation_summary |->
                    [total_requested |-> Len(job_ids),
                     failed_cancellations |-> Len(k.failed_cancellations)],
                cancelled_jobs |-> k.cancelled_jobs,
                failed_cancellations |-> k.failed_cancellations]),
        "Failed to cancel running jobs: ")

cancel_running_jobs(c, project_key, job_ids, jobs) ==
    cancel_return(
        cancel_loop([c |-> get_project(get_client(c), project_key), jobs |-> jobs,
                     cancelled_jobs |-> <<>>, failed_cancellations |-> <<>>],
                    job_ids, 1),
        job_ids)

(***************************************************************************)
(* environment_config.py: get_code_environments                            *)
(***************************************************************************)
\* lines 93-101: except Exception as e: env_info["error"] = ...; then the append
code_env_append(k, name, c3, c5) ==
    [c |-> ExceptContinue(c5),
     global_environments |->
         Append(k.global_environments,
                [name |-> name, detailed |-> Live(c3), has_error |-> c5.exc])]

\* lines 74-92: the packages, inside the innermost try/except
code_env_packages(k, name, c3, c4) ==
    code_env_append(k, name, c3, IF Live(c3) THEN ExceptContinue(c4) ELSE c3)

\* lines 46-72: the detail calls of one environment
code_env_details(k, name, c3) ==
    code_env_packages(k, name, c3, Do(c3, <<"list_packages", name>>))

\* lines 30-101: one environment of the list; k = [c, global_environments]
code_env_info(k, name) ==
    code_env_details(k, name,
                     Do(Do(Do(k.c, <<"get_code_env", name>>),
                           <<"get_settings", name>>),
                        <<"get_raw", name>>))

RECURSIVE code_env_loop(_, _, _)
\* for env in env_list
code_env_loop(k, env_list, i) ==
    IF i > Len(env_list) \/ ~Live(k.c) THEN k
    ELSE code_env_loop(code_env_info(k, env_list[i]), env_list, i + 1)

\* lines 27-108: the global environments; c2 is the context after list_code_envs()
global_environments(c1, c2, env_list) ==
    IF ~Live(c1) THEN [c |-> c1, global_environments |-> <<>>]
    ELSE IF c2.exc THEN [c |-> ExceptContinue(c2), global_environments |-> <<>>]
    ELSE code_env_loop([c |-> c2, global_environments |-> <<>>], env_list, 1)

\* lines 187-194: except Exception as e: result["project_environment_error"] = ...
project_environment_result(c3, project_key, result) ==
    [c |-> ExceptContinue(c3),
     result |-> Update(result,
                       IF c3.exc
                       THEN [project_environment_error |->
                                "Could not get project environment settings: " \o c3.etext]
                       ELSE [project_environment_info |-> [project_key |-> project_key[1]]])]

\* lines 122-194: if project_key: try: ... ; p = [c, result]
project_environment(p, project_key) ==
    IF Truthy(project_key) /\ Live(p.c)
    THEN project_environment_result(
             Do(Do(get_project(p.c, project_key[1]),
                   <<"get_settings", project_key[1]>>),
                <<"get_code_env_settings", project_key[1]>>),
             project_key, p.result)
    ELSE p

\* lines 110-119: result = {"status": "ok", ...}
code_env_result(k) ==
    [c |-> k.c,
     result |-> [status |-> "ok",
                 global_environments |-> k.global_environments,
                 global_environment_count |-> Len(k.global_environments)]]

\* line 196: return result
return_result(p) == Return(p.c, p.result)

\* lines 23-28
list_code_envs(c1, env_list) ==
    global_environments(c1, Do(c1, <<"list_code_envs", "client">>), env_list)

\* env_list: what client.list_code_envs() returns
get_code_environments(c, project_key, env_list) ==
    ExceptReturn(
        return_result(
            project_environment(code_env_result(list_code_envs(get_client(c), env_list)),
                                project_key)),
        "Failed to get code environments: ")

(***************************************************************************)
(* datasets.py: create_dataset                                             *)
(***************************************************************************)
\* A test for the presence of the key alone.
Has_key(params, key) == key \in DOMAIN params

\* Python truthiness of dict.get(key) for string values
Has(params, key) == key \in DOMAIN params /\ params[key] # ""

\* the dataset types with a branch of their own: lines 56, 78, 99, 126, 148
handled_types == {"managed", "filesystem", "sql", "s3", "uploaded"}

\* A generic branch that refuses the type instead of creating the dataset.
create_generic_rejects(c, dataset_name, dataset_type) ==
    Return(c, Err("Unsupported dataset type: " \o dataset_type))

\* lines 154-167: project.create_dataset(dataset_name, dataset_type, params, ...)
create_generic(c, dataset_name, dataset_type) ==
    Do(c, <<"create_dataset", dataset_name, dataset_type>>)

\* lines 55-167: the branch on dataset_type.lower(), up to the creation call
create_by_type(c, dataset_name, dataset_type, params) ==
    LET t == Lower(dataset_type) IN
    IF t = "managed"
    THEN LET c1 == Do(c, <<"new_managed_dataset", dataset_name>>)
             c2 == Do(c1, <<"with_store_into", dataset_name>>)
             c3 == IF Has(params, "format_type")
                   THEN Do(c2, <<"with_format", dataset_name>>)
                   ELSE c2
         IN  Do(c3, <<"builder.create", dataset_name>>)
    ELSE IF t = "filesystem"
    THEN IF ~Has(params, "path")
         THEN Return(c, Err("Path is required for filesystem datasets"))
         ELSE Do(c, <<"create_filesystem_dataset", dataset_name>>)
    ELSE IF t = "sql"
    THEN IF ~(Has(params, "connection") /\ Has(params, "table"))
         THEN Return(c, Err("Connection and table are required for SQL datasets"))
         ELSE Do(c, <<"create_sql_table_dataset", dataset_name>>)
    ELSE IF t = "s3"
    THEN IF ~(Has(params, "connection") /\ Has(params, "path"))
         THEN Return(c, Err("Connection and path are required for S3 datasets"))
         ELSE Do(c, <<"create_s3_dataset", dataset_name>>)
    ELSE IF t = "uploaded"
    THEN Do(c, <<"create_upload_dataset", dataset_name>>)
    ELSE create_generic(c, dataset_name, dataset_type)

\* lines 169-182: the format of a dataset that is not managed
set_format(c, dataset_name, dataset_type, params) ==
    IF Has(params, "format_type") /\ Lower(dataset_type) # "managed"
    THEN LET c1 == Do(c, <<"get_settings", dataset_name>>)
             c2 == Do(c1, <<"set_format_type", dataset_name>>)
             c3 == IF Has(params, "format_params")
                   THEN Do(c2, <<"set_format_params", dataset_name>>)
                   ELSE c2
         IN  Do(c3, <<"save", dataset_name>>)
    ELSE c

\* params: the dict given, <<>> for None or {} (params = params or {})
create_dataset(c, project_key, dataset_name, dataset_type, params) ==
    LET c1 == get_project(c, project_key)
        c2 == create_by_type(c1, dataset_name, dataset_type, params)
        c3 == set_format(c2, dataset_name, dataset_type, params)
    IN  ExceptReturn(
            Return(c3, [status |-> "ok", dataset_name |-> dataset_name,
                        dataset_type |-> dataset_type,
                        message |-> "Dataset '" \o dataset_name
                                    \o "' created successfully"]),
            "Failed to create dataset '" \o dataset_name \o "': ")

(***************************************************************************)
(* The requests: one action per tool, one call at a time.                  *)
(***************************************************************************)
RECURSIVE PatOver(_, _)
\* The failure patterns over the positions S with at most n failing calls.
PatOver(S, n) ==
    IF n = 0 THEN {{}}
    ELSE PatOver(S, n - 1) \cup {P \cup {k} : P \in PatOver(S, n - 1), k \in S}

\* The patterns tried on a call whose failure-free run is c0: a failure at any
\* of its calls, or at the call after them (a handler may make one more call).
FailurePatterns(c0) ==
    LET n == Len(c0.calls) + 1 IN
    PatOver(1..(IF n < MaxCalls THEN n ELSE MaxCalls), MaxFailures)

ExcMsgs == {"", "Project already exists"}

RECURSIVE SeqUpTo(_, _)
\* The sequences over S of length at most n.
SeqUpTo(S, n) ==
    IF n = 0 THEN {<<>>}
    ELSE SeqUpTo(S, n - 1)
         \cup {Append(q, x) : q \in {r \in SeqUpTo(S, n - 1) : Len(r) = n - 1}, x \in S}

\* DSS_HOST and DSS_API_KEY: both set, or one of them unset or empty.
EnvConfigs ==
    {[DSS_HOST |-> Some("h"), DSS_API_KEY |-> Some("k")]}
    \cup {[DSS_HOST |-> v, DSS_API_KEY |-> Some("k")] : v \in {None, Some("")}}
    \cup {[DSS_HOST |-> Some("h"), DSS_API_KEY |-> v] : v \in {None, Some("")}}
ProjectKeys == {"P"}
Modes == {None, Some(""), Some("RECURSIVE_BUILD"), Some("bogus")}

Idle == [tool |-> "<none>"]

\* What a finished call leaves behind for inspection.
Outcome(c) ==
    [calls |-> c.calls, raised |-> c.raised, exc |-> c.exc, etype |-> c.etype,
     ret |-> c.ret, inst0 |-> c.inst0, inst |-> c.inst, mem |-> c.mem]

\* A call returns (or raises) with context c.
Finish(tool, args, c) ==
    /\ c.made <= MaxClients
    /\ pc' = "done"
    /\ last' = [tool |-> tool, args |-> args, out |-> Outcome(c)]
    /\ _CLIENT_INSTANCE' = c.inst
    /\ made' = c.made
    /\ UNCHANGED <<env, serial, tpc, tnew, tret>>

Begin(F, emsg) == Start(F, emsg, _CLIENT_INSTANCE, made, env)

\* A direct call of get_client(): it returns _CLIENT_INSTANCE, or raises.
get_client_call(c) ==
    LET d == get_client(c) IN Return(d, [status |-> "<value>", value |-> d.inst])

GetClient ==
    /\ pc = "idle"
    /\ \E F \in FailurePatterns(get_client_call(Begin({}, ""))), emsg \in ExcMsgs :
        Finish("get_client", [none |-> None], get_client_call(Begin(F, emsg)))

ResetClient ==
    /\ pc = "idle"
    /\ made < MaxClients
    /\ Finish("reset_client", [none |-> None], reset_client(Begin({}, "")))

RunRecipe ==
    /\ pc = "idle"
    /\ \E emsg \in ExcMsgs, pk \in ProjectKeys, bm \in Modes :
       \E F \in FailurePatterns(run_recipe(Begin({}, ""), pk, "r1", bm)) :
        Finish("run_recipe", [build_mode |-> bm],
               run_recipe(Begin(F, emsg), pk, "r1", bm))

BuildDataset ==
    /\ pc = "idle"
    /\ \E emsg \in ExcMsgs, pk \in ProjectKeys, m \in Modes, part \in {None, Some("2024")} :
       \E F \in FailurePatterns(build_dataset(Begin({}, ""), pk, "d1", m, part)) :
        Finish("build_dataset", [mode |-> m, partition |-> part],
               build_dataset(Begin(F, emsg), pk, "d1", m, part))

CreateScenario ==
    /\ pc = "idle"
    /\ \E emsg \in ExcMsgs, pk \in ProjectKeys,
          st \in {"step_based", "custom_python", "bogus", ""} :
       \E F \in FailurePatterns(create_scenario(Begin({}, ""), pk, "s_new", st)) :
        Finish("create_scenario", [scenario_type |-> st],
               create_scenario(Begin(F, emsg), pk, "s_new", st))

TriggerParams == {<<>>, [dataset_name |-> "d1"], [every_minutes |-> "5"]}

AddScenarioTrigger ==
    /\ pc = "idle"
    /\ \E emsg \in ExcMsgs, pk \in ProjectKeys,
          tt \in valid_trigger_types \cup {"time", "bogus"}, ps \in TriggerParams :
       \E F \in FailurePatterns(add_scenario_trigger(Begin({}, ""), pk, "s1", tt, ps)) :
        Finish("add_scenario_trigger", [trigger_type |-> tt, params |-> ps],
               add_scenario_trigger(Begin(F, emsg), pk, "s1", tt, ps))

\* The flows: a dataset list, and recipes r1, r2, ... with their definitions.
RecipeNames == <<"r1", "r2", "r3", "r4">>
FlowRefs == {"d1", "d2"}
FlowDatasets == {<<>>, <<"d1">>, <<"d1", "d2", "d3">>}
RecipeDefs == [inputs : SeqUpTo(FlowRefs, MaxInputs), outputs : SeqUpTo(FlowRefs, MaxOutputs)]
\* list_recipes(): n recipes named r1..rn, each with one of the definitions
RecipeLists ==
    UNION {{[i \in 1..n |-> [name |-> RecipeNames[i], inputs |-> d[i].inputs,
                             outputs |-> d[i].outputs]] : d \in [1..n -> RecipeDefs]}
           : n \in 0..MaxRecipes}

GetProjectFlow ==
    /\ pc = "idle"
    /\ \E pk \in ProjectKeys, ds \in FlowDatasets, rs \in RecipeLists :
       \E F \in FailurePatterns(get_project_flow(Begin({}, ""), pk, ds, rs)) :
        Finish("get_project_flow", [datasets |-> ds, recipes |-> rs],
               get_project_flow(Begin(F, ""), pk, ds, rs))

\* The source scenarios: two steps, and 0..MaxTriggers triggers t1, t2, ...
TriggerNames == <<"t1", "t2", "t3", "t4", "t5">>
SourceSteps ==
    <<[type |-> "custom_python", name |-> "s1", params |-> [script |-> "old"]],
      [type |-> "build", name |-> "s2"]>>
SourceScenarios ==
    {[type |-> "step_based", active |-> TRUE, raw_steps |-> SourceSteps,
      raw_triggers |-> [i \in 1..n |-> [type |-> "temporal", name |-> TriggerNames[i]]]]
     : n \in 0..MaxTriggers}

\* The modifications dicts: <<>> is the empty dict (and None: both are falsy).
RemoveOpts ==
    {<<>>} \cup {[remove_triggers |-> q] : q \in SeqUpTo(-1..MaxTriggers, MaxRemove)}
NewTriggerOpts == {<<>>, [new_triggers |-> <<[type |-> "dataset", name |-> "n1"]>>]}
TriggerModOpts ==
    {<<>>,
     [trigger_modifications |-> <<<<PyInt(0), [name |-> "renamed"]>>>>],
     [trigger_modifications |-> <<<<PyStr("0"), [name |-> "renamed"]>>>>]}
StepModOpts ==
    {<<>>,
     [step_modifications |-> <<<<PyInt(0), [code |-> "new", name |-> "x"]>>>>],
     [step_modifications |-> <<<<PyInt(1), [params |-> [k |-> "v"]]>>>>],
     [step_modifications |-> <<<<PyInt(0), [params |-> [script |-> "p"], enabled |-> FALSE]>>,
                               <<PyInt(-1), [code |-> "c", name |-> "y"]>>>>],
     [step_modifications |-> <<<<PyStr("0"), [name |-> "x"]>>>>],
     [step_modifications |-> <<<<PyInt(2), [name |-> "x"]>>>>]}
MetadataOpts == {<<>>, [description |-> "d"], [tags |-> "t", active |-> FALSE]}
CloneModifications ==
    {Update(Update(a, b), d) : a \in RemoveOpts, b \in NewTriggerOpts, d \in TriggerModOpts}
    \cup {Update(a, b) : a \in StepModOpts, b \in MetadataOpts}

CloneScenario ==
    /\ pc = "idle"
    /\ \E pk \in ProjectKeys, src \in SourceScenarios, mods \in CloneModifications :
       \E F \in FailurePatterns(clone_scenario(Begin({}, ""), pk, src, "s_new", mods)) :
        Finish("clone_scenario", [source |-> src, modifications |-> mods],
               clone_scenario(Begin(F, ""), pk, src, "s_new", mods))

\* The triggers of a scenario: 0..MaxTriggers of them, the last one without a name.
ScenarioTriggers ==
    {[i \in 1..n |-> IF i = MaxTriggers THEN [type |-> "temporal"]
                     ELSE [type |-> "temporal", name |-> TriggerNames[i]]]
     : n \in 0..MaxTriggers}

RemoveScenarioTrigger ==
    /\ pc = "idle"
    /\ \E emsg \in ExcMsgs, triggers \in ScenarioTriggers,
          trigger_idx \in (-2)..(MaxTriggers + 1) :
       \E F \in FailurePatterns(
                  remove_scenario_trigger(Begin({}, ""), "P", "s1", trigger_idx, triggers)) :
        Finish("remove_scenario_trigger", [trigger_idx |-> trigger_idx, triggers |-> triggers],
               remove_scenario_trigger(Begin(F, emsg), "P", "s1", trigger_idx, triggers))

\* The scenarios update_scenario is called on, and its keyword arguments.
UpdateScenarios ==
    {[raw_steps |-> SourceSteps, definition_api |-> TRUE],
     [raw_steps |-> <<[type |-> "custom_python", name |-> "s1"]>>, definition_api |-> FALSE]}
UpdateMetadataOpts == {<<>>, [description |-> "d"], [tags |-> "t", custom_fields |-> "f"]}
UpdateSettingsOpts == {<<>>, [name |-> "n"], [active |-> FALSE, definition |-> "def"]}
UpdateScriptOpts ==
    {<<>>, [step_script |-> "new"]}
    \cup {[step_script |-> "new", step_index |-> i] : i \in {-1, 0, 1, 2}}
UpdateKwargs ==
    {Update(Update(a, b), d) :
        a \in UpdateMetadataOpts, b \in UpdateSettingsOpts, d \in UpdateScriptOpts}

UpdateScenario ==
    /\ pc = "idle"
    /\ \E emsg \in ExcMsgs, kwargs \in UpdateKwargs, scenario \in UpdateScenarios :
       \E F \in FailurePatterns(update_scenario(Begin({}, ""), "P", "s1", kwargs, scenario)) :
        Finish("update_scenario", [kwargs |-> kwargs, scenario |-> scenario],
               update_scenario(Begin(F, emsg), "P", "s1", kwargs, scenario))

\* What run_and_wait() returns: a run with an outcome, or without the attribute.
RunResults ==
    {<<>>} \cup {[outcome |-> o] :
                    o \in {"SUCCESS", "success", "FAILED", "failed", "Failed", "WARNING",
                           "ABORTED"}}

RunScenario ==
    /\ pc = "idle"
    /\ \E emsg \in ExcMsgs, wait \in BOOLEAN, no_fail \in BOOLEAN, run_result \in RunResults :
       \E F \in FailurePatterns(
                  run_scenario(Begin({}, ""), "P", "s1", wait, no_fail, run_result)) :
        Finish("run_scenario", [wait |-> wait, no_fail |-> no_fail, run_result |-> run_result],
               run_scenario(Begin(F, emsg), "P", "s1", wait, no_fail, run_result))

\* The source projects of a duplication.
DuplicateSources ==
    [datasets : {<<>>, <<[name |-> "d1", type |-> "managed"]>>,
                 <<[name |-> "d1", type |-> "UploadedFiles"],
                   [name |-> "d2", type |-> "filesystem"]>>},
     recipes : {<<>>, <<[name |-> "r1", type |-> "python",
                         inputs |-> <<"d1">>, outputs |-> <<"d2">>]>>,
                <<[name |-> "r1", type |-> "join",
                   inputs |-> <<"d1">>, outputs |-> <<>>],
                  [name |-> "r2", type |-> "sql",
                   inputs |-> <<>>, outputs |-> <<"d2">>]>>},
     scenarios : {<<>>, <<[name |-> "s1"], [name |-> "s2"]>>},
     variables : {<<"v1">>}]

\* The target keys of a duplication of project "P": another key, or "P" itself.
TargetKeys == {"Q", "P"}

\* The platform refuses to create a project under the key of the source project:
\* in the finished call create_project(source key), if made, raised.
create_refused(source_project_key, out) ==
    \A j \in 1..Len(out.calls) :
        out.calls[j] = <<"create_project", source_project_key>>
           => \E i \in 1..Len(out.raised) : out.raised[i] = j

DuplicateProjectStructure ==
    /\ pc = "idle"
    /\ \E emsg \in ExcMsgs, src \in DuplicateSources, include_data \in BOOLEAN,
          target_project_key \in TargetKeys :
       \E F \in FailurePatterns(
                  duplicate_project_structure(Begin({}, ""), "P", target_project_key,
                                              include_data, src)) :
        /\ Finish("duplicate_project_structure",
                  [source |-> src, include_data |-> include_data,
                   source_project_key |-> "P", target_project_key |-> target_project_key],
                  duplicate_project_structure(Begin(F, emsg), "P", target_project_key,
                                              include_data, src))
        /\ create_refused("P", last'.out)

\* The objects a project lists, the patterns and the updates of a batch update.
BatchObjects ==
    {[name |-> "da", type |-> "python"], [name |-> "Ab", type |-> "join"],
     [name |-> "a[1", type |-> "sql"]}
BatchLists ==
    {q \in SeqUpTo(BatchObjects, MaxObjects) :
        \A i, j \in 1..Len(q) : i # j => q[i] # q[j]}
BatchPatterns == {"", "d", "^a", "[", "A[", "B$", ".a"}
BatchUpdates ==
    {<<>>, [description |-> "d"], [tags |-> "t", settings |-> "s"],
     [description |-> "d", active |-> FALSE], [code |-> "c", recipe_params |-> "p"]}

\* object_type as productivity.py documents it (in any case) and as the tool's
\* docstring in server.py documents it
BatchObjectTypes == {"datasets", "Recipes", "SCENARIOS", "DATASET", "RECIPE", "SCENARIO"}

BatchUpdateObjects ==
    /\ pc = "idle"
    /\ \E ot \in BatchObjectTypes, pat \in BatchPatterns,
          ups \in BatchUpdates, objs \in BatchLists :
       \E F \in FailurePatterns(batch_update_objects(Begin({}, ""), "P", ot, pat, ups, objs)) :
        Finish("batch_update_objects",
               [object_type |-> ot, pattern |-> pat, updates |-> ups, objects |-> objs],
               batch_update_objects(Begin(F, ""), "P", ot, pat, ups, objs))

CodeEnvNames == <<"e1", "e2", "e3">>

GetCodeEnvironments ==
    /\ pc = "idle"
    /\ \E emsg \in ExcMsgs, pk \in {None, Some(""), Some("P")}, n \in 0..MaxEnvs :
       LET env_list == [i \in 1..n |-> CodeEnvNames[i]] IN
       \E F \in FailurePatterns(get_code_environments(Begin({}, ""), pk, env_list)) :
        Finish("get_code_environments", [project_key |-> pk, env_list |-> env_list],
               get_code_environments(Begin(F, emsg), pk, env_list))

DatasetTypes == {"managed", "FileSystem", "SQL", "s3", "uploaded", "hdfs", "Managed"}
DatasetParams ==
    {<<>>, [path |-> "/p"], [path |-> ""], [connection |-> "c"],
     [connection |-> "c", table |-> "t"], [connection |-> "c", path |-> "/p"],
     [connection |-> "", path |-> "/p"],
     [path |-> "/p", format_type |-> "csv"],
     [connection |-> "c", path |-> "/p", table |-> "t", format_type |-> "csv",
      format_params |-> "sep"]}

CreateDataset ==
    /\ pc = "idle"
    /\ \E emsg \in ExcMsgs, dt \in DatasetTypes, ps \in DatasetParams :
       \E F \in FailurePatterns(create_dataset(Begin({}, ""), "P", "d_new", dt, ps)) :
        Finish("create_dataset", [dataset_type |-> dt, params |-> ps],
               create_dataset(Begin(F, emsg), "P", "d_new", dt, ps))

\* The objects a project lists for a search, the search terms and object_types.
SearchProjects ==
    {[datasets |-> <<[name |-> "da", type |-> "t"],
                     [name |-> "Ab", type |-> "t", description |-> "a[1"]>>,
      recipes |-> <<[name |-> "d", type |-> "t", description |-> "",
                     tags |-> <<"A[", "da">>]>>,
      scenarios |-> <<>>],
     [datasets |-> <<>>,
      recipes |-> <<[name |-> "a[1", type |-> "t", tags |-> <<>>]>>,
      scenarios |-> <<[name |-> "Ab", type |-> "t", tags |-> <<"d">>]>>]}
SearchTerms == {"a[1", "[", "A[", "d", "^a", "B$"}
SearchTypes ==
    {None, Some(<<>>), Some(<<"datasets">>), Some(<<"scenarios", "recipes">>),
     Some(<<"bogus", "datasets">>)}

SearchProjectObjects ==
    /\ pc = "idle"
    /\ \E term \in SearchTerms, ots \in SearchTypes, project \in SearchProjects :
       \E F \in FailurePatterns(search_project_objects(Begin({}, ""), "P", term, ots,
                                                       project)) :
        Finish("search_project_objects",
               [search_term |-> term, object_types |-> ots, project |-> project],
               search_project_objects(Begin(F, ""), "P", term, ots, project))

\* The settings dict of a dataset: without params, with empty params, with an
\* empty list, with statements.
PostWriteSettings ==
    {[type |-> "sql"],
     [type |-> "sql", params |-> <<>>],
     [type |-> "sql", params |-> [customPostWriteStatements |-> <<>>]],
     [type |-> "sql", params |-> [customPreWriteStatements |-> <<"p1">>]],
     [type |-> "sql", params |-> [customPostWriteStatements |-> <<"s1">>]],
     [type |-> "sql", params |-> [customPostWriteStatements |-> <<"s1", "s2">>,
                                  customPreWriteStatements |-> <<"p1">>]]}

GetDatasetPostWriteStatements ==
    /\ pc = "idle"
    /\ \E emsg \in ExcMsgs, raw_settings \in PostWriteSettings :
       \E F \in FailurePatterns(
                  get_dataset_post_write_statements(Begin({}, ""), "P", "d1", raw_settings)) :
        Finish("get_dataset_post_write_statements", [raw_settings |-> raw_settings],
               get_dataset_post_write_statements(Begin(F, emsg), "P", "d1", raw_settings))

\* The columns asked of a sample (<<>> for None) and the columns of the schema.
SampleColumns == {<<>>, <<"a">>, <<"a", "z">>}

GetDatasetSample ==
    /\ pc = "idle"
    /\ \E columns \in SampleColumns :
       \E F \in FailurePatterns(get_dataset_sample(Begin({}, ""), "P", "d1", columns,
                                                   <<"a", "b">>)) :
        Finish("get_dataset_sample", [columns |-> columns],
               get_dataset_sample(Begin(F, ""), "P", "d1", columns, <<"a", "b">>))

\* The jobs of the platform and the job ids of a request.
JobStates ==
    {[j1 |-> [state |-> "RUNNING", aborted |-> "ABORTED"],
      j2 |-> [state |-> "DONE", aborted |-> "DONE"]],
     [j1 |-> [state |-> "PENDING", aborted |-> "RUNNING"],
      j2 |-> [state |-> "RUNNING", aborted |-> "CANCELLED"]]}
JobIds == SeqUpTo({"j1", "j2"}, MaxObjects)

CancelRunningJobs ==
    /\ pc = "idle"
    /\ \E job_ids \in JobIds, jobs \in JobStates :
       \E F \in FailurePatterns(cancel_running_jobs(Begin({}, ""), "P", job_ids, jobs)) :
        Finish("cancel_running_jobs", [job_ids |-> job_ids, jobs |-> jobs],
               cancel_running_jobs(Begin(F, ""), "P", job_ids, jobs))

\* The host transport takes the next request.
NextRequest ==
    /\ pc = "done"
    /\ pc' = "idle"
    /\ last' = Idle
    /\ UNCHANGED <<_CLIENT_INSTANCE, made, env, serial, tpc, tnew, tret>>

Threads == 1..MaxThreads

Init ==
    /\ _CLIENT_INSTANCE = NoClient
    /\ made = 0
    /\ env \in EnvConfigs
    /\ pc = "idle"
    /\ last = Idle
    /\ serial = TRUE
    /\ tpc = [t \in Threads |-> "idle"]
    /\ tnew = [t \in Threads |-> NoClient]
    /\ tret = [t \in Threads |-> NoClient]

Next ==
    \/ GetClient
    \/ ResetClient
    \/ RunRecipe
    \/ BuildDataset
    \/ CreateScenario
    \/ AddScenarioTrigger
    \/ GetProjectFlow
    \/ CloneScenario
    \/ DuplicateProjectStructure
    \/ BatchUpdateObjects
    \/ GetCodeEnvironments
    \/ CreateDataset
    \/ SearchProjectObjects
    \/ GetDatasetSample
    \/ CancelRunningJobs
    \/ GetDatasetPostWriteStatements
    \/ RemoveScenarioTrigger
    \/ UpdateScenario
    \/ RunScenario
    \/ NextRequest

Spec == Init /\ [][Next]_vars

(***************************************************************************)
(* get_client() called from several threads.  The statements of            *)
(* client.py:29-32 are separate steps: the test of the global, the call of *)
(* _create_client(), the store to the global, and the load for the return. *)
(* With serial = TRUE a call starts only when no other call is in          *)
(* progress.                                                               *)
(***************************************************************************)
\* A check that sends every caller to _create_client().
T_check_always_creates(t) ==
    /\ tpc[t] = "idle"
    /\ serial => \A u \in Threads : tpc[u] = "idle"
    /\ tpc' = [tpc EXCEPT ![t] = "create"]
    /\ UNCHANGED <<_CLIENT_INSTANCE, made, env, pc, last, serial, tnew, tret>>

\* if _CLIENT_INSTANCE is None:
T_check(t) ==
    /\ tpc[t] = "idle"
    /\ serial => \A u \in Threads : tpc[u] = "idle"
    /\ tpc' = [tpc EXCEPT ![t] = IF _CLIENT_INSTANCE = NoClient THEN "create" ELSE "return"]
    /\ UNCHANGED <<_CLIENT_INSTANCE, made, env, pc, last, serial, tnew, tret>>

\* _create_client() returns a new client, or raises (F = {1}: the constructor fails)
T_create(t) ==
    /\ tpc[t] = "create"
    /\ \E F \in {{}, {1}} :
         LET d == _create_client(Start(F, "", _CLIENT_INSTANCE, made, env)) IN
         /\ d.made <= MaxClients
         /\ made' = d.made
         /\ IF d.exc
            THEN /\ tpc' = [tpc EXCEPT ![t] = "idle"]
                 /\ tnew' = tnew
            ELSE /\ tpc' = [tpc EXCEPT ![t] = "assign"]
                 /\ tnew' = [tnew EXCEPT ![t] = d.made]
    /\ UNCHANGED <<_CLIENT_INSTANCE, env, pc, last, serial, tret>>

\* _CLIENT_INSTANCE = <the new client>
T_assign(t) ==
    /\ tpc[t] = "assign"
    /\ _CLIENT_INSTANCE' = tnew[t]
    /\ tpc' = [tpc EXCEPT ![t] = "return"]
    /\ UNCHANGED <<made, env, pc, last, serial, tnew, tret>>

\* return _CLIENT_INSTANCE
T_return(t) ==
    /\ tpc[t] = "return"
    /\ tret' = [tret EXCEPT ![t] = _CLIENT_INSTANCE]
    /\ tpc' = [tpc EXCEPT ![t] = "idle"]
    /\ UNCHANGED <<_CLIENT_INSTANCE, made, env, pc, last, serial, tnew>>

InitThreads ==
    /\ _CLIENT_INSTANCE = NoClient
    /\ made = 0
    /\ env = [DSS_HOST |-> Some("h"), DSS_API_KEY |-> Some("k")]
    /\ pc = "idle"
    /\ last = Idle
    /\ serial \in BOOLEAN
    /\ tpc = [t \in Threads |-> "idle"]
    /\ tnew = [t \in Threads |-> NoClient]
    /\ tret = [t \in Threads |-> NoClient]

NextThreads ==
    \E t \in Threads : T_check(t) \/ T_create(t) \/ T_assign(t) \/ T_return(t)

SpecThreads == InitThreads /\ [][NextThreads]_vars


(***************************************************************************)
(* Properties                                                              *)
(***************************************************************************)
\* The tool functions (get_client and reset_client are not tools).
Tools ==
    {"run_recipe", "build_dataset", "create_scenario", "add_scenario_trigger",
     "get_project_flow", "clone_scenario", "duplicate_project_structure",
     "batch_update_objects", "get_code_environments", "create_dataset",
     "search_project_objects", "get_dataset_sample", "cancel_running_jobs",
     "get_dataset_post_write_statements", "remove_scenario_trigger",
     "update_scenario", "run_scenario"}

Done(tool) == pc = "done" /\ last.tool = tool
ToolDone == pc = "done" /\ last.tool \in Tools

\* Occurrences of x in the sequence q.
Count(q, x) == Cardinality({i \in 1..Len(q) : q[i] = x})
Elems(q) == {q[i] : i \in 1..Len(q)}

\* The SDK call at position k of the finished call raised.
RaisedAt(k) == \E j \in 1..Len(last.out.raised) : last.out.raised[j] = k
\* The SDK calls of the finished call that raised.
RaisedCalls == {last.out.calls[last.out.raised[j]] : j \in 1..Len(last.out.raised)}
\* Some SDK call of the finished call was <<method, target>> and did not raise.
Succeeded(call) ==
    \E k \in 1..Len(last.out.calls) : last.out.calls[k] = call /\ ~RaisedAt(k)
CalledOn(call) == \E k \in 1..Len(last.out.calls) : last.out.calls[k] = call

\* The result is an error dict with a non-empty message.
IsError(r) == r.status = "error" /\ "message" \in DOMAIN r /\ r.message # ""

\* The names of the objects of a batch update, and the per-object SDK targets of a
\* duplication.
BatchNames == {o.name : o \in BatchObjects}
DuplicateNames == {"d1", "d2", "r1", "r2", "s1", "s2"}
DuplicateTargets ==
    {"source/" \o n : n \in DuplicateNames} \cup {"target/" \o n : n \in DuplicateNames}

\* The call sits inside a try/except of the tool other than the outermost one.
InnerHandled(tool, call) ==
    CASE tool = "get_project_flow" -> call[1] \in {"get_recipe", "get_definition"}
      [] tool = "get_code_environments" -> call[1] \notin {"DSSClient", "get_instance_info"}
      [] tool = "batch_update_objects" -> call[2] \in BatchNames
      [] tool = "duplicate_project_structure" ->
            \/ call[1] \in {"create_project", "get_variables", "set_variables"}
            \/ call[2] \in DuplicateTargets
      [] tool = "get_dataset_sample" -> call[1] = "get_dataframe"
      [] tool = "cancel_running_jobs" -> call[1] \in {"get_job", "abort", "list_jobs"}
      [] OTHER -> FALSE

\* C1 (as claimed): whenever an SDK call made during a tool call raised, the tool
\* returned status "error" with a non-empty message and nothing propagated.
C1_AnyFailureIsError ==
    (ToolDone /\ last.out.raised # <<>>) => (~last.out.exc /\ IsError(last.out.ret))

\* C1 (amended): no exception of an SDK call propagates out of a tool, and when a
\* call that raised is not enclosed in one of the tool's inner try/except blocks
\* the tool returns status "error" with a non-empty message.
C1_UnhandledFailureIsError ==
    ToolDone =>
        /\ ~last.out.exc
        /\ (\E call \in RaisedCalls : ~InnerHandled(last.tool, call))
              => IsError(last.out.ret)

\* C1 witness: in one duplication a call inside an inner handler raised and was
\* absorbed, then a call outside every inner handler raised and the tool returned
\* the error.
C1_Witness ==
    /\ Done("duplicate_project_structure")
    /\ RaisedCalls = {<<"get_variables", "source/">>, <<"list_datasets", "source/">>}
    /\ IsError(last.out.ret)

\* C2: every tool call ends with a dict whose status is "ok" or "error", with a
\* message when "error"; none raises and none returns None, whatever the input
\* and whichever SDK calls fail.
C2_StatusDict ==
    ToolDone =>
        /\ ~last.out.exc
        /\ last.out.ret.status \in {"ok", "error"}
        /\ last.out.ret.status = "error" => "message" \in DOMAIN last.out.ret

\* C2 witness: add_scenario_trigger passed its validation, its last SDK call
\* (save) raised, and the call returned an error dict.
C2_Witness ==
    /\ Done("add_scenario_trigger")
    /\ last.args.trigger_type = "dataset"
    /\ RaisedCalls = {<<"save", "s1">>}
    /\ last.out.ret.status = "error"

InvalidMode(m) == Truthy(m) /\ m[1] \notin valid_modes

\* C3 (as claimed): build_dataset and run_recipe reject a mode outside the three
\* valid ones with status "error" before any client/SDK call has been made.
C3_RejectedBeforeClient ==
    /\ (Done("build_dataset") /\ InvalidMode(last.args.mode))
          => (last.out.ret.status = "error" /\ last.out.calls = <<>>)
    /\ (Done("run_recipe") /\ InvalidMode(last.args.build_mode))
          => (last.out.ret.status = "error" /\ last.out.calls = <<>>)

(***************************************************************************)
(* clone_scenario                                                          *)
(***************************************************************************)
CloneOk == Done("clone_scenario") /\ last.out.ret.status = "ok"

RECURSIVE Unlisted(_, _, _)
\* The elements of q at the 0-based positions i, i+1, ... that are not in listed.
Unlisted(q, listed, i) ==
    IF i >= Len(q) THEN <<>>
    ELSE (IF i \in Elems(listed) THEN <<>> ELSE <<q[i + 1]>>) \o Unlisted(q, listed, i + 1)

\* The list is made of distinct positions of a list of length n.
DistinctInRange(listed, n) ==
    /\ \A j \in 1..Len(listed) : 0 <= listed[j] /\ listed[j] < n
    /\ \A i, j \in 1..Len(listed) : i # j => listed[i] # listed[j]

\* C4: when remove_triggers lists distinct in-range indices, in any order, the
\* clone's triggers are the triggers of the pre-removal list at the positions
\* not listed, in their original order.
C4_RemoveTriggers ==
    (/\ CloneOk
     /\ "remove_triggers" \in DOMAIN last.args.modifications
     /\ DistinctInRange(last.args.modifications.remove_triggers,
                        Len(last.out.mem.before_removal)))
    => last.out.mem.new_settings.raw_triggers
          = Unlisted(last.out.mem.before_removal,
                     last.args.modifications.remove_triggers, 0)

\* C4 witness: remove_triggers = [2, 0] on three triggers left the middle one.
C4_Witness ==
    /\ CloneOk
    /\ "remove_triggers" \in DOMAIN last.args.modifications
    /\ last.args.modifications.remove_triggers = <<2, 0>>
    /\ Len(last.out.mem.before_removal) = 3
    /\ last.out.mem.new_settings.raw_triggers = <<last.out.mem.before_removal[2]>>

BatchMatching ==
    {o.name : o \in {x \in Elems(last.args.objects) : matches(last.args.pattern, x.name)}}
BatchFailed == {call[2] : call \in {x \in RaisedCalls : x[2] \in BatchNames}}

DuplicateOk == Done("duplicate_project_structure") /\ last.out.ret.status = "ok"
\* A patch item of a clone raised: a bad index or key, or a metadata call.
CloneItemFailed ==
    /\ Done("clone_scenario")
    /\ \/ last.out.etype \in {"TypeError", "IndexError", "KeyError"}
       \/ \E call \in RaisedCalls : call[1] \in {"get_metadata", "set_metadata"}
                                    /\ call[2] = "new"

\* Only SDK calls on the items of the batch raised.
BatchOnlyItemsFailed ==
    /\ Done("batch_update_objects")
    /\ RaisedCalls # {}
    /\ \A call \in RaisedCalls : call[2] \in BatchNames

\* Only SDK calls inside the per-item (or the variables) handlers of the
\* duplication raised.
DuplicateOnlyItemsFailed ==
    /\ Done("duplicate_project_structure")
    /\ RaisedCalls # {}
    /\ \A call \in RaisedCalls :
          call[2] \in DuplicateTargets \/ call[1] \in {"get_variables", "set_variables"}

C6_SingleAssignment ==
    [][/\ (_CLIENT_INSTANCE' # _CLIENT_INSTANCE)
             => (_CLIENT_INSTANCE = NoClient \/ last'.tool = "reset_client")
       /\ (pc = "idle" /\ pc' = "done" /\ _CLIENT_INSTANCE # NoClient
             /\ last'.tool # "reset_client")
             => /\ _CLIENT_INSTANCE' = _CLIENT_INSTANCE
                /\ made' = made
                /\ \A k \in 1..Len(last'.out.calls) : last'.out.calls[k][1] # "DSSClient"
                /\ last'.tool = "get_client"
                      => (~last'.out.exc /\ last'.out.ret.value = _CLIENT_INSTANCE
                          /\ last'.out.calls = <<>>)]_vars

\* C6 witness: get_client was called with the handle set and returned it.
C6_Witness ==
    /\ Done("get_client")
    /\ last.out.inst0 # NoClient
    /\ last.out.ret = [status |-> "<value>", value |-> last.out.inst0]
    /\ made = 2

\* C7: with one request at a time at most one client is ever constructed and
\* every caller holds the same instance; the two-instance state below is reachable
\* only when calls interleave.
C7_SerialSingleInstance ==
    serial => /\ made <= 1
              /\ \A t, u \in Threads :
                    (tret[t] # NoClient /\ tret[u] # NoClient) => tret[t] = tret[u]

\* C7 witness: two calls interleaved, two clients were constructed and the two
\* callers hold different instances.
C7_Witness ==
    /\ ~serial
    /\ made = 2
    /\ \E t, u \in Threads :
          tret[t] # NoClient /\ tret[u] # NoClient /\ tret[t] # tret[u]

(***************************************************************************)
(* get_project_flow                                                        *)
(***************************************************************************)
FlowOk == Done("get_project_flow") /\ last.out.ret.status = "ok"
FlowIds == {"d1", "d2", "d3"} \cup Elems(RecipeNames)

DependsOn(deps, id) == IF HasKey(deps, id) THEN Entry(deps, id).depends_on ELSE <<>>
UsedBy(deps, id) == IF HasKey(deps, id) THEN Entry(deps, id).used_by ELSE <<>>

\* C8 (as claimed): root_nodes holds exactly the nodes of the flow with an empty
\* depends_on, leaf_nodes exactly the nodes with an empty used_by.
C8_RootsAndLeaves ==
    FlowOk =>
        LET r == last.out.ret
            NodeIds == {r.nodes[i].id : i \in 1..Len(r.nodes)}
        IN  /\ Elems(r.root_nodes)
                 = {n \in NodeIds : DependsOn(r.dependencies, n) = <<>>}
            /\ Elems(r.leaf_nodes)
                 = {n \in NodeIds : UsedBy(r.dependencies, n) = <<>>}

\* The recipe's definition was fetched: both calls were made and neither raised.
Fetched(name) ==
    Succeeded(<<"get_recipe", name>>) /\ Succeeded(<<"get_definition", name>>)

RECURSIVE DeclaredEdges(_, _, _, _)
\* The input a -> b and output a -> b declarations of the fetched recipes i..n.
DeclaredEdges(recipes, i, a, b) ==
    IF i > Len(recipes) THEN 0
    ELSE LET r == recipes[i] IN
         (IF Fetched(r.name)
          THEN (IF b = r.name THEN Count(r.inputs, a) ELSE 0)
               + (IF a = r.name THEN Count(r.outputs, b) ELSE 0)
          ELSE 0)
         + DeclaredEdges(recipes, i + 1, a, b)

\* C9: the dependency map is the edge list re-indexed, and the edge list holds one
\* edge per declared input and output of every recipe whose definition was fetched.
C9_DependenciesMirrorEdges ==
    FlowOk =>
        LET r == last.out.ret IN
        \A a, b \in FlowIds :
            LET n == Cardinality({i \in 1..Len(r.edges) :
                                    r.edges[i].from = a /\ r.edges[i].to = b})
            IN  /\ Count(DependsOn(r.dependencies, b), a) = n
                /\ Count(UsedBy(r.dependencies, a), b) = n
                /\ n = DeclaredEdges(last.args.recipes, 1, a, b)

\* C9 witness: a flow where one recipe declares the same input twice, another
\* recipe could not be fetched, and the map has entries.
C9_Witness ==
    /\ FlowOk
    /\ Len(last.args.recipes) = 2
    /\ last.args.recipes[1].inputs = <<"d1", "d1">>
    /\ last.args.recipes[1].outputs = <<"d2">>
    /\ ~Fetched("r2")
    /\ last.args.recipes[2].inputs # <<>>
    /\ Count(DependsOn(last.out.ret.dependencies, "r1"), "d1") = 2

\* C10: whatever modifications a clone applies and however the call ends, the
\* source's raw_steps and raw_triggers are what they were, and no save or
\* set_metadata call is made on the source scenario.
C10_SourceUnchanged ==
    Done("clone_scenario") =>
        /\ last.out.mem.source_settings.raw_steps = last.args.source.raw_steps
        /\ last.out.mem.source_settings.raw_triggers = last.args.source.raw_triggers
        /\ ~CalledOn(<<"save", "source">>)
        /\ ~CalledOn(<<"set_metadata", "source">>)

\* C10 witness: a clone whose steps were modified and saved, so that they differ
\* from the source's.
C10_Witness ==
    /\ CloneOk
    /\ "step_modifications" \in DOMAIN last.args.modifications
    /\ "description" \in DOMAIN last.args.modifications
    /\ last.out.mem.new_settings.raw_steps # last.args.source.raw_steps
    /\ CalledOn(<<"save", "new">>)
    /\ CalledOn(<<"set_metadata", "new">>)

(***************************************************************************)
(* create_dataset: the generic path                                        *)
(***************************************************************************)
\* The creation methods of the project and of the managed-dataset builder.
CreationMethods ==
    {"new_managed_dataset", "builder.create", "create_filesystem_dataset",
     "create_sql_table_dataset", "create_s3_dataset", "create_upload_dataset",
     "create_dataset"}

\* C11: create_dataset with a type that, lower-cased, is none of managed,
\* filesystem, sql, s3, uploaded calls project.create_dataset with the type as
\* given and makes no other creation call, once the project has been fetched;
\* and it returns status "ok" unless an SDK call raised.
C11_GenericPath ==
    (/\ Done("create_dataset")
     /\ Lower(last.args.dataset_type) \notin handled_types
     /\ Succeeded(<<"get_project", "P">>))
    => /\ CalledOn(<<"create_dataset", "d_new", last.args.dataset_type>>)
       /\ \A k \in 1..Len(last.out.calls) :
             last.out.calls[k][1] \in CreationMethods
                => last.out.calls[k][1] = "create_dataset"
       /\ last.out.raised = <<>> => last.out.ret.status = "ok"

\* C11 witness: a dataset of type "hdfs" was created through the generic path.
C11_Witness ==
    /\ Done("create_dataset")
    /\ last.args.dataset_type = "hdfs"
    /\ Succeeded(<<"create_dataset", "d_new", "hdfs">>)
    /\ last.out.ret.status = "ok"

(***************************************************************************)
(* search_project_objects                                                  *)
(***************************************************************************)
SearchKinds == {"datasets", "recipes", "scenarios"}

\* The kinds a finished search was asked for.
SearchedKinds ==
    IF last.args.object_types = None THEN SearchKinds
    ELSE Elems(last.args.object_types[1]) \cap SearchKinds

\* The text holds the term as a case-insensitive substring.
HoldsTerm(text, term) == Contains(LowerChars(Spell(text)), LowerChars(Spell(term)))

\* The name, the description or a tag of the object holds the term.
ObjectHoldsTerm(o, term) ==
    \/ HoldsTerm(o.name, term)
    \/ "description" \in DOMAIN o /\ HoldsTerm(o.description, term)
    \/ "tags" \in DOMAIN o /\ \E i \in 1..Len(o.tags) : HoldsTerm(o.tags[i], term)

\* C12: a search whose term is not a valid regular expression, and during which
\* no SDK call raised, returns status "ok" with, for each kind searched, exactly
\* the listed objects whose name, description or any tag contains the term as a
\* case-insensitive substring.
C12_InvalidRegexFallsBack ==
    (/\ Done("search_project_objects")
     /\ regex_invalid(Spell(last.args.search_term))
     /\ Succeeded(<<"get_project", "P">>)
     /\ last.out.raised = <<>>)
    => /\ ~last.out.exc
       /\ last.out.ret.status = "ok"
       /\ DOMAIN last.out.ret.results = SearchedKinds
       /\ \A kind \in SearchedKinds :
             /\ Elems(last.out.ret.results[kind])
                   = {o.name : o \in {p \in Elems(last.args.project[kind]) :
                                         ObjectHoldsTerm(p, last.args.search_term)}}
             /\ \A n \in Elems(last.out.ret.results[kind]) :
                   Count(last.out.ret.results[kind], n) = 1

\* C12 witness: the term "A[" found one dataset by its description "a[1" and one
\* recipe by its tag "A[".
C12_Witness ==
    /\ Done("search_project_objects")
    /\ last.args.search_term = "A["
    /\ last.args.object_types = None
    /\ last.out.ret.status = "ok"
    /\ last.out.ret.results["datasets"] = <<"Ab">>
    /\ last.out.ret.results["recipes"] = <<"d">>

(***************************************************************************)
(* _create_client                                                          *)
(***************************************************************************)
\* DSS_HOST or DSS_API_KEY is unset or empty.
EnvMissing == Missing(env.DSS_HOST) \/ Missing(env.DSS_API_KEY)

\* C13: a get_client that finds the handle unset raises ValueError without
\* constructing a client when DSS_HOST or DSS_API_KEY is unset or empty; otherwise
\* it constructs a client, and raises ConnectionError when the construction or
\* the get_instance_info probe fails; after either failure the handle is still
\* unset, so that the next get_client goes through the same creation again.
C13_FailedCreationLeavesUnset ==
    (Done("get_client") /\ last.out.inst0 = NoClient)
    => /\ EnvMissing
            => /\ last.out.exc /\ last.out.etype = "ValueError"
               /\ last.out.calls = <<>>
               /\ _CLIENT_INSTANCE = NoClient
       /\ ~EnvMissing
            => /\ last.out.calls # <<>>
               /\ last.out.calls[1] = <<"DSSClient", env.DSS_HOST[1]>>
       /\ (~EnvMissing /\ last.out.raised # <<>>)
            => /\ last.out.exc /\ last.out.etype = "ConnectionError"
               /\ _CLIENT_INSTANCE = NoClient
       /\ (~EnvMissing /\ last.out.raised = <<>>)
            => /\ ~last.out.exc
               /\ _CLIENT_INSTANCE # NoClient
               /\ last.out.calls = <<<<"DSSClient", env.DSS_HOST[1]>>,
                                     <<"get_instance_info", "client">>>>

\* C13 witness: after one client had been constructed and the handle reset, the
\* probe of a new client failed and the handle stayed unset.
C13_Witness ==
    /\ Done("get_client")
    /\ last.out.inst0 = NoClient
    /\ made = 1
    /\ RaisedCalls = {<<"get_instance_info", "client">>}
    /\ last.out.etype = "ConnectionError"
    /\ _CLIENT_INSTANCE = NoClient

(***************************************************************************)
(* Every tool call: the number of SDK calls, and no retry                  *)
(***************************************************************************)
RECURSIVE SumRefs(_, _)
\* The inputs and outputs of the recipes from position i on.
SumRefs(recipes, i) ==
    IF i > Len(recipes) THEN 0
    ELSE Len(recipes[i].inputs) + Len(recipes[i].outputs) + SumRefs(recipes, i + 1)

\* A bound on the SDK calls of the finished call, linear in the sizes of the lists
\* it was given and of the lists the SDK returned.
CallBound ==
    CASE last.tool = "get_project_flow" -> 5 + 2 * Len(last.args.recipes)
      [] last.tool = "batch_update_objects" -> 4 + 9 * Len(last.args.objects)
      [] last.tool = "get_code_environments" -> 6 + 4 * Len(last.args.env_list)
      [] last.tool = "cancel_running_jobs" -> 4 + 3 * Len(last.args.job_ids)
      [] last.tool = "duplicate_project_structure" ->
            10 + 9 * Len(last.args.source.datasets)
               + 11 * Len(last.args.source.recipes) + SumRefs(last.args.source.recipes, 1)
               + 8 * Len(last.args.source.scenarios)
      [] OTHER -> 14

\* No item is requested twice in a list given to the finished call.
ItemsDistinct ==
    last.tool = "cancel_running_jobs"
       => \A i, j \in 1..Len(last.args.job_ids) :
             i # j => last.args.job_ids[i] # last.args.job_ids[j]

DocumentedObjectTypes == {"DATASET", "RECIPE", "SCENARIO"}

\* C15 (as claimed): called with a documented object_type, the project found and
\* no SDK call failing, batch_update_objects lists the objects of that type and returns
\* status "ok" with every matching object updated.
C15_DocumentedTypesAccepted ==
    (/\ Done("batch_update_objects")
     /\ last.args.object_type \in DocumentedObjectTypes
     /\ Succeeded(<<"get_project", "P">>)
     /\ last.out.raised = <<>>)
        => /\ last.out.ret.status = "ok"
           /\ \E k \in 1..Len(last.out.calls) :
                 last.out.calls[k][1] \in {"list_datasets", "list_recipes", "list_scenarios"}

(***************************************************************************)
(* get_dataset_post_write_statements: no statements configured             *)
(***************************************************************************)
\* The settings of the finished call hold no customPostWriteStatements.
NoPostWriteConfigured ==
    \/ "params" \notin DOMAIN last.args.raw_settings
    \/ "customPostWriteStatements" \notin DOMAIN last.args.raw_settings.params

\* C16: when the dataset's settings hold no customPostWriteStatements (with or
\* without a params entry) and the SDK calls succeed, the result is status "ok"
\* with post_write_statements the empty list and has_post_write false.
C16_EmptyWhenNotConfigured ==
    (/\ Done("get_dataset_post_write_statements")
     /\ NoPostWriteConfigured
     /\ last.out.raised = <<>>
     /\ Succeeded(<<"get_settings", "d1">>))
        => /\ last.out.ret.status = "ok"
           /\ last.out.ret.post_write_statements = <<>>
           /\ ~last.out.ret.has_post_write

\* C16 witness: the settings have no params entry at all, and the call returned
\* ok with the empty list.
C16_Witness ==
    /\ Done("get_dataset_post_write_statements")
    /\ "params" \notin DOMAIN last.args.raw_settings
    /\ Succeeded(<<"get_settings", "d1">>)
    /\ last.out.ret.status = "ok"
    /\ last.out.ret.post_write_statements = <<>>

(***************************************************************************)
(* clone_scenario: any remove_triggers list                                *)
(***************************************************************************)
\* C17 (as claimed): for any remove_triggers list, repeated, out-of-range and
\* negative indices included, a trigger of the pre-removal list at a position
\* that is not listed is still in the clone, and no more triggers are removed
\* than there are listed positions within 0..len-1.
C17_OnlyListedRemoved ==
    (CloneOk /\ "remove_triggers" \in DOMAIN last.args.modifications)
    => LET before == last.out.mem.before_removal
           after == last.out.mem.new_settings.raw_triggers
           listed == Elems(last.args.modifications.remove_triggers)
       IN  /\ \A p \in 0..(Len(before) - 1) :
                 p \notin listed => before[p + 1] \in Elems(after)
           /\ Len(before) - Len(after)
                 <= Cardinality({p \in listed : 0 <= p /\ p < Len(before)})

(***************************************************************************)
(* clone_scenario: the order of the trigger patches                        *)
(***************************************************************************)
\* The triggers src after the items of trigger_modifications were applied to them.
Modified(src, items) ==
    [i \in 1..Len(src) |->
        IF \E j \in 1..Len(items) : items[j][1] = PyInt(i - 1)
        THEN Update(src[i], items[CHOOSE j \in 1..Len(items) : items[j][1] = PyInt(i - 1)][2])
        ELSE src[i]]

\* C18: in a clone that succeeded, the pre-removal trigger list is the source's
\* triggers with trigger_modifications applied, followed by the new_triggers as
\* given (so the modifications came first); a listed index that addresses an
\* appended trigger removes it (so the removals came last); and trigger_count is
\* the source's trigger count plus the new triggers minus the deletions.
C18_TriggerPatchOrder ==
    CloneOk =>
        LET mods == last.args.modifications
            src == last.args.source.raw_triggers
            new == GetOr(mods, "new_triggers", <<>>)
            listed == GetOr(mods, "remove_triggers", <<>>)
            before == last.out.mem.before_removal
            after == last.out.mem.new_settings.raw_triggers
        IN  /\ before = Modified(src, GetOr(mods, "trigger_modifications", <<>>)) \o new
            /\ DistinctInRange(listed, Len(before))
                  => \A p \in Elems(listed) :
                        p >= Len(src) => new[p - Len(src) + 1] \notin Elems(after)
            /\ last.out.ret.scenario_info.trigger_count
                  = Len(src) + Len(new) - (Len(before) - Len(after))
            /\ last.out.ret.scenario_info.trigger_count = Len(after)

\* C18 witness: a clone given all three keys, whose first trigger was modified,
\* whose new trigger was appended and then removed by the index after the
\* source's last trigger.
C18_Witness ==
    /\ CloneOk
    /\ {"trigger_modifications", "new_triggers", "remove_triggers"}
          \subseteq DOMAIN last.args.modifications
    /\ last.args.modifications.remove_triggers
          = <<Len(last.args.source.raw_triggers)>>
    /\ Len(last.args.source.raw_triggers) = 2
    /\ last.out.mem.before_removal[1] # last.args.source.raw_triggers[1]
    /\ Len(last.out.mem.before_removal) = 3
    /\ last.out.ret.scenario_info.trigger_count = 2

(***************************************************************************)
(* clone_scenario: a failure after the scenario was created                *)
(***************************************************************************)
\* The position of the first occurrence of the call in the finished call's log.
FirstAt(call) ==
    CHOOSE k \in 1..Len(last.out.calls) :
        /\ last.out.calls[k] = call
        /\ \A j \in 1..(k - 1) : last.out.calls[j] # call

\* C19: once create_scenario has succeeded, every call on the new scenario comes
\* after it and save, when made, is the last call; and when the call then ends
\* with an error, the result is status "error", save was not called (or is the
\* call that raised), and no call deletes the created scenario.
C19_NoRollback ==
    (Done("clone_scenario") /\ Succeeded(<<"create_scenario", "s_new">>))
    => /\ \A j \in 1..Len(last.out.calls) :
             last.out.calls[j][2] = "new" => FirstAt(<<"create_scenario", "s_new">>) < j
       /\ \A j \in 1..Len(last.out.calls) :
             last.out.calls[j] = <<"save", "new">> => j = Len(last.out.calls)
       /\ last.out.ret.status \in {"ok", "error"}
       /\ (last.out.ret.status = "ok") = Succeeded(<<"save", "new">>)
       /\ last.out.ret.status = "error"
             => /\ IsError(last.out.ret)
                /\ CalledOn(<<"save", "new">>) => RaisedAt(Len(last.out.calls))
                /\ \A j \in 1..Len(last.out.calls) :
                      last.out.calls[j][1] \notin {"delete", "delete_scenario"}

\* C19 witness: the scenario was created, a step_modifications key was a str, the
\* comparison with the step count raised, and the call returned the error without
\* saving.
C19_Witness ==
    /\ Done("clone_scenario")
    /\ Succeeded(<<"create_scenario", "s_new">>)
    /\ "step_modifications" \in DOMAIN last.args.modifications
    /\ last.out.raised = <<>>
    /\ last.out.ret.status = "error"
    /\ ~CalledOn(<<"save", "new">>)

(***************************************************************************)
(* batch_update_objects: matching objects and the two result lists         *)
(***************************************************************************)
\* What Python gives for re.compile(pattern, re.IGNORECASE).search(name), or for
\* pattern.lower() in name.lower() when re.compile raises ("[" and "A[" do), over
\* the patterns and names of BatchPatterns and BatchObjects.
ExpectedMatches ==
    {<<"", "da">>, <<"", "Ab">>, <<"", "a[1">>,
     <<"d", "da">>,
     <<"^a", "Ab">>, <<"^a", "a[1">>,
     <<"[", "a[1">>,
     <<"A[", "a[1">>,
     <<"B$", "Ab">>,
     <<".a", "da">>}

BatchOk == Done("batch_update_objects") /\ last.out.ret.status = "ok"

\* C20: in a batch update of a supported type that returned ok, every listed
\* object whose name matches the pattern is in exactly one of updated_objects and
\* failed_updates, an object that does not match is in neither and no SDK call
\* was made on it, and objects_updated + objects_failed is the number of matching
\* objects.
C20_MatchedExactlyOnce ==
    BatchOk =>
        LET objects == last.args.objects
            r == last.out.ret
            Matching == {i \in 1..Len(objects) :
                            <<last.args.pattern, objects[i].name>> \in ExpectedMatches}
        IN  /\ \A i \in 1..Len(objects) :
                  IF i \in Matching
                  THEN Count(r.updated_objects, objects[i].name)
                          + Count(r.failed_updates, objects[i].name) = 1
                  ELSE /\ Count(r.updated_objects, objects[i].name) = 0
                       /\ Count(r.failed_updates, objects[i].name) = 0
                       /\ \A j \in 1..Len(last.out.calls) :
                             last.out.calls[j][2] # objects[i].name
            /\ r.update_summary.objects_updated + r.update_summary.objects_failed
                  = Cardinality(Matching)
            /\ r.update_summary.objects_updated = Len(r.updated_objects)
            /\ r.update_summary.objects_failed = Len(r.failed_updates)

\* C20 witness: of two datasets listed, the one that matches the pattern failed to
\* update and is in failed_updates; the other does not match and was not touched.
C20_Witness ==
    /\ BatchOk
    /\ last.args.pattern = "d"
    /\ Len(last.args.objects) = 2
    /\ last.args.objects[1].name = "da"
    /\ last.out.ret.failed_updates = <<"da">>
    /\ last.out.ret.updated_objects = <<>>
    /\ last.out.raised # <<>>

(***************************************************************************)
(* duplicate_project_structure: the source project is only read            *)
(***************************************************************************)
\* The SDK methods that create or change an object of a project.
MutatingMethods ==
    {"set_variables", "create_dataset", "set_schema", "write_with_schema", "new_recipe",
     "with_input", "with_output", "build", "set_code", "set_recipe_params", "save",
     "create_scenario", "set_metadata"}

\* The call was made through the handle target_project or on an object of it.
ThroughTarget(call) ==
    call[2] \in {"target/"} \cup {"target/" \o n : n \in DuplicateNames}

\* The key of the project the call of the finished duplication acted on.
ProjectOf(call) ==
    IF ThroughTarget(call) THEN last.args.target_project_key
    ELSE last.args.source_project_key

\* C21 (as claimed): whatever the source and target keys, and also when the target
\* exists already and is reused, no mutating SDK call of a duplication acts on
\* the source project.
C21_SourceOnlyRead ==
    Done("duplicate_project_structure") =>
        \A j \in 1..Len(last.out.calls) :
            (last.out.calls[j][1] \in MutatingMethods /\ ~RaisedAt(j))
               => ProjectOf(last.out.calls[j]) # last.args.source_project_key

(***************************************************************************)
(* create_scenario, add_scenario_trigger: validation before the client     *)
(***************************************************************************)
\* The finished call made no SDK call and left the shared client as it was.
NoClientCall ==
    /\ last.out.calls = <<>>
    /\ last.out.inst = last.out.inst0
    /\ _CLIENT_INSTANCE = last.out.inst0

\* The arguments of the finished add_scenario_trigger fail its validation.
RejectedTrigger ==
    \/ last.args.trigger_type = "time"
    \/ last.args.trigger_type \notin valid_trigger_types
    \/ last.args.trigger_type = "dataset" /\ "dataset_name" \notin DOMAIN last.args.params

\* C22: create_scenario with a type other than step_based and custom_python, and
\* add_scenario_trigger with type "time", an unsupported type, or "dataset"
\* without dataset_name, return status "error" having made no client or SDK call
\* and without creating the shared client.
C22_RejectedBeforeClient ==
    /\ (Done("create_scenario") /\ last.args.scenario_type \notin valid_types)
          => (IsError(last.out.ret) /\ NoClientCall)
    /\ (Done("add_scenario_trigger") /\ RejectedTrigger)
          => (IsError(last.out.ret) /\ NoClientCall)

\* C22 witness: a dataset trigger without dataset_name was rejected while no
\* client existed, and none exists afterwards.
C22_Witness ==
    /\ Done("add_scenario_trigger")
    /\ last.args.trigger_type = "dataset"
    /\ "dataset_name" \notin DOMAIN last.args.params
    /\ IsError(last.out.ret)
    /\ last.out.calls = <<>>
    /\ _CLIENT_INSTANCE = NoClient

(***************************************************************************)
(* remove_scenario_trigger                                                 *)
(***************************************************************************)
\* The list q without its element at the 0-based position p.
Without(q, p) == [i \in 1..(Len(q) - 1) |-> IF i <= p THEN q[i] ELSE q[i + 1]]

\* C23: once the triggers have been fetched, remove_scenario_trigger with an index
\* below 0 or at or past the number of triggers returns status "error", leaves
\* the list as it was and does not call save; with an index in range it deletes
\* the trigger at that index, and no other, and calls save exactly once.
C23_IndexChecked ==
    Done("remove_scenario_trigger") =>
        LET idx == last.args.trigger_idx
            before == last.args.triggers
            after == last.out.mem.triggers
        IN  IF ~Succeeded(<<"get_triggers", "s1">>) \/ idx < 0 \/ idx >= Len(before)
            THEN /\ IsError(last.out.ret)
                 /\ after = before
                 /\ ~CalledOn(<<"save", "s1">>)
            ELSE /\ after = Without(before, idx)
                 /\ Count(last.out.calls, <<"save", "s1">>) = 1

\* C23 witness: index -1 on a scenario with two triggers was rejected, the list
\* was left alone and save was not called.
C23_Witness ==
    /\ Done("remove_scenario_trigger")
    /\ last.args.trigger_idx = -1
    /\ Len(last.args.triggers) = 2
    /\ Succeeded(<<"get_triggers", "s1">>)
    /\ IsError(last.out.ret)
    /\ last.out.mem.triggers = last.args.triggers
    /\ ~CalledOn(<<"save", "s1">>)

\* C24 (as claimed): on success remaining_triggers is the number of triggers left
\* after the removal, the count before the call minus one.
C24_RemainingCount ==
    (Done("remove_scenario_trigger") /\ last.out.ret.status = "ok")
    => /\ last.out.ret.remaining_triggers = Len(last.out.mem.triggers)
       /\ last.out.ret.remaining_triggers = Len(last.args.triggers) - 1

(***************************************************************************)
(* cancel_running_jobs                                                     *)
(***************************************************************************)
CancelOk == Done("cancel_running_jobs") /\ last.out.ret.status = "ok"

\* The state of the job on the platform when call j of the finished call was made:
\* the state abort() gives it once an earlier abort() of that job succeeded.
StateAt(job_id, j) ==
    IF \E i \in 1..(j - 1) : last.out.calls[i] = <<"abort", job_id>> /\ ~RaisedAt(i)
    THEN last.args.jobs[job_id].aborted
    ELSE last.args.jobs[job_id].state

\* The entries of the list that are about the job.
EntriesOf(list, job_id) == Cardinality({i \in 1..Len(list) : list[i].job_id = job_id})

\* C25: once the project has been fetched the call returns ok; abort() is called
\* only right after a get_job of the same id that succeeded and showed the state
\* RUNNING or PENDING; each requested id has, per occurrence, exactly one entry in
\* cancelled_jobs or failed_cancellations, whichever calls failed; and
\* total_requested is the sum of the lengths of the two lists.
C25_OneEntryPerJob ==
    Done("cancel_running_jobs") =>
        /\ Succeeded(<<"get_project", "P">>) => last.out.ret.status = "ok"
        /\ \A j \in 1..Len(last.out.calls) :
              last.out.calls[j][1] = "abort"
                 => /\ j > 1
                    /\ last.out.calls[j - 1] = <<"get_job", last.out.calls[j][2]>>
                    /\ ~RaisedAt(j - 1)
                    /\ StateAt(last.out.calls[j][2], j - 1) \in {"RUNNING", "PENDING"}
        /\ last.out.ret.status = "ok"
              => /\ \A id \in {"j1", "j2"} :
                       EntriesOf(last.out.ret.cancelled_jobs, id)
                          + EntriesOf(last.out.ret.failed_cancellations, id)
                             = Count(last.args.job_ids, id)
                 /\ last.out.ret.cancellation_summary.total_requested
                       = Len(last.out.ret.cancelled_jobs)
                            + Len(last.out.ret.failed_cancellations)
                 /\ last.out.ret.cancellation_summary.total_requested
                       = Len(last.args.job_ids)

\* C25 witness: looking up the first job failed, and the second job was still
\* aborted and reported.
C25_Witness ==
    /\ CancelOk
    /\ last.args.job_ids = <<"j1", "j2">>
    /\ \E j \in 1..Len(last.out.calls) :
          last.out.calls[j] = <<"get_job", "j1">> /\ RaisedAt(j)
    /\ Succeeded(<<"abort", "j2">>)
    /\ Len(last.out.ret.failed_cancellations) = 1
    /\ last.out.ret.failed_cancellations[1].job_id = "j1"
    /\ Len(last.out.ret.cancelled_jobs) = 1
    /\ last.out.ret.cancelled_jobs[1].job_id = "j2"

(***************************************************************************)
(* update_scenario: a step_script that cannot be applied                   *)
(***************************************************************************)
\* step_script of the finished call targets an index at or past the number of
\* steps, or a step that is not a custom_python step.
BadScriptTarget ==
    /\ "step_script" \in DOMAIN last.args.kwargs
    /\ LET idx == IF "step_index" \in DOMAIN last.args.kwargs
                  THEN last.args.kwargs.step_index ELSE 0
           steps == last.args.scenario.raw_steps
       IN  \/ idx >= Len(steps)
           \/ /\ 0 <= idx
              /\ idx < Len(steps)
              /\ ("type" \notin DOMAIN steps[idx + 1] \/ steps[idx + 1].type # "custom_python")

\* C26: when update_scenario has fetched the settings and step_script cannot be
\* applied, the call returns status "error" and save is not called, while the
\* metadata given in the same call has already been written by set_metadata.
C26_ScriptErrorAfterMetadata ==
    (/\ Done("update_scenario")
     /\ Succeeded(<<"get_settings", "s1">>)
     /\ BadScriptTarget)
    => /\ IsError(last.out.ret)
       /\ ~CalledOn(<<"save", "s1">>)
       /\ last.out.mem.raw_steps = last.args.scenario.raw_steps
       /\ (metadata_keys \cap DOMAIN last.args.kwargs # {})
             = Succeeded(<<"set_metadata", "s1">>)

\* C26 witness: a call with a description, a name and a script for step 1, a build
\* step: no SDK call failed, set_metadata was made, the call returned the error
\* and never saved.
C26_Witness ==
    /\ Done("update_scenario")
    /\ {"description", "name", "step_script", "step_index"} \subseteq DOMAIN last.args.kwargs
    /\ last.args.kwargs.step_index = 1
    /\ Len(last.args.scenario.raw_steps) = 2
    /\ last.out.raised = <<>>
    /\ Succeeded(<<"set_metadata", "s1">>)
    /\ Succeeded(<<"get_settings", "s1">>)
    /\ IsError(last.out.ret)
    /\ ~CalledOn(<<"save", "s1">>)

(***************************************************************************)
(* run_scenario                                                            *)
(***************************************************************************)
\* An exception was raised during the finished call.
Excepted == last.out.etype # ""

\* The run of the finished call has the outcome FAILED, in any case of letters.
RunFailed ==
    /\ "outcome" \in DOMAIN last.args.run_result
    /\ last.args.run_result.outcome \in {"FAILED", "failed", "Failed"}

\* C27: run_scenario with wait returns status "error" exactly when the outcome is
\* FAILED (in any case) and no_fail is false, or an exception was raised, and
\* "ok" otherwise; without wait it returns "ok" unless an exception was raised
\* and never calls run_and_wait.
C27_RunStatus ==
    Done("run_scenario") =>
        /\ last.out.ret.status \in {"ok", "error"}
        /\ IF last.args.wait
           THEN /\ (last.out.ret.status = "error")
                      = (Excepted \/ (RunFailed /\ ~last.args.no_fail))
                /\ \A j \in 1..Len(last.out.calls) : last.out.calls[j][1] # "run"
           ELSE /\ (last.out.ret.status = "error") = Excepted
                /\ last.out.ret.status = "ok" => Succeeded(<<"run", "s1">>)
                /\ \A j \in 1..Len(last.out.calls) : last.out.calls[j][1] # "run_and_wait"

\* C27 witness: a run waited for ended with the outcome "failed" while no_fail
\* was set, and the call returned ok.
C27_Witness ==
    /\ Done("run_scenario")
    /\ last.args.wait
    /\ last.args.no_fail
    /\ last.args.run_result = [outcome |-> "failed"]
    /\ Succeeded(<<"run_and_wait", "s1">>)
    /\ last.out.ret.status = "ok"

(***************************************************************************)
(* create_dataset: required parameters                                     *)
(***************************************************************************)
\* The parameter is missing from the params of the finished call, or empty.
Lacks(key) == key \notin DOMAIN last.args.params \/ last.args.params[key] = ""

\* The finished create_dataset lacks a parameter its type requires.
MissingRequired ==
    \/ last.args.dataset_type = "FileSystem" /\ Lacks("path")
    \/ last.args.dataset_type = "SQL" /\ (Lacks("connection") \/ Lacks("table"))
    \/ last.args.dataset_type = "s3" /\ (Lacks("connection") \/ Lacks("path"))

\* C28: create_dataset for a filesystem dataset without a path, an sql dataset
\* without connection or table, or an s3 dataset without connection or path (the
\* parameter missing or empty) returns status "error" and makes no creation call
\* on the project.
C28_RequiredParameters ==
    (Done("create_dataset") /\ MissingRequired)
    => /\ IsError(last.out.ret)
       /\ \A j \in 1..Len(last.out.calls) : last.out.calls[j][1] \notin CreationMethods

\* C28 witness: an s3 dataset with an empty connection was refused once the
\* project had been fetched.
C28_Witness ==
    /\ Done("create_dataset")
    /\ last.args.dataset_type = "s3"
    /\ last.args.params = [connection |-> "", path |-> "/p"]
    /\ Succeeded(<<"get_project", "P">>)
    /\ last.out.raised = <<>>
    /\ last.out.ret = Err("Connection and path are required for S3 datasets")

====
